---- MODULE Spec2Model ----
(***************************************************************************)
(* mirror.py: the master's package state machine and scheduler loop, the   *)
(* transfer backends' dispatch threads, the worker's job registry, the     *)
(* configuration loader and the socket protocol.                           *)
(*                                                                         *)
(* Fifteen specifications share the variables:                             *)
(*   StatusSpec  arbitrary Package.set_status calls on the package table   *)
(*   Spec        the daemon loop, the backend threads it starts, and the   *)
(*               worker answering their RPCs                               *)
(*   WorkerSpec  the worker's connection-handler threads running           *)
(*               execute_command concurrently on the job registry          *)
(*   LoadSpec    config.load on a configuration and a stat file, followed  *)
(*               by set_status calls                                       *)
(*   SockSpec    one client connection to the WorkerServer: handshake,     *)
(*               requests, responses and job_finished notifications        *)
(*   ExitSpec    Spec with the signal handlers and loop failures that end  *)
(*               the daemon and the worker                                 *)
(*   DurationSpec  durations through iso_duration_maker and its string     *)
(*               through iso_duration_parser                               *)
(*   RaceSpec    the scheduler and the backend threads of one package,     *)
(*               with set_status taken statement by statement              *)
(*   EventSpec   on, off and post_event calls on the EventManager and its  *)
(*               executor running the listeners                            *)
(*   OnceSpec    once and post_event calls on the EventManager             *)
(*   HsSpec      the handshake of one connection with clients that send    *)
(*               a request too early or nothing at all                     *)
(*   StopSpec    SockSpec with BaseServer.stop called at any moment        *)
(*   ReloadSpec  config.load and reload on a config file that is edited    *)
(*               between the calls, also into one that is rejected         *)
(*   FairSpec    Spec with the threads scheduled fairly                    *)
(*   FrameSpec   one message from _send_message to _recv_message over a    *)
(*               stream delivered in chunks                                *)
(***************************************************************************)
EXTENDS Integers, Sequences, FiniteSets, TLC

\* ------------------------------------------------------------------ bounds
\* Wall-clock second at which the daemon starts.
StartTime == 100
\* Number of seconds (scheduler sleeps) explored after the start.
MaxTick == 2
\* Cap on errorcount.
MaxErrorCount == 2
\* Cap on backend threads alive at once for one package.
MaxThreads == 2
\* Child process slots of the worker host.
MaxChildren == 2
\* Cap on send_command calls made on one connection.
MaxRequests == 3
\* Cap on post_event calls made on the event manager.
MaxPosts == 2
\* Cap on the length of one event's listener list.
MaxRegistrations == 3

\* -------------------------------------------------------- program constants
\* Config.errorcontinuetime default.
ErrorContinueTime == 60
\* socket/__init__.py PROTOCOL_VERSION.
PROTOCOL_VERSION == 1
\* toolbox.iso_duration_maker: the longest duration it formats (31 days less
\* a second).
MaxIsoDuration == 2678399

\* The package table: mirror.packages, in config insertion order.
PkgOrder == <<"p1", "p2">>
Packages == {PkgOrder[i] : i \in 1..Len(PkgOrder)}

\* Package.set_status's status_list.
status_list == {"ACTIVE", "SYNC", "ERROR", "UNKNOWN"}
\* Targets a caller can pass to set_status: the four statuses and a bad one.
Targets == status_list \cup {"BOGUS"}

\* syncrate values: "PUSH" (-1), "" (0), "PT2S" (2).
SyncRates == {-1, 0, 2}
\* The synctype of each package in the config: one backend that calls
\* client.execute_command and one that calls client.start_sync.
ConfiguredTypes == [p \in Packages |-> IF p = "p1" THEN "rsync" ELSE "ftpsync"]

\* A free backend-thread slot.
NoThread == [pc |-> "none", resp |-> "none", cur |-> FALSE]

\* Connection-handler threads of the worker server.
Handlers == {"h1", "h2"}
\* Child process ids.
Pids == 1..MaxChildren

VARIABLES
    \* ---- master: package table (mirror.packages)
    status,         \* Package.status
    errorcount,     \* Package.errorcount
    lastsync,       \* Package.lastsync (seconds)
    timestamp,      \* Package.timestamp (ms), -1 while the attribute is unset
    syncrate,       \* Package.syncrate (seconds, -1 = PUSH)
    synctype,       \* Package.synctype
    disabled,       \* Package.disabled
    debug,          \* mirror.debug
    lastPosted,     \* events posted by the latest set_status call
    raised,         \* whether the latest set_status call raised ValueError
    \* ---- master: daemon loop
    now,            \* time.time(), whole seconds
    cursor,         \* index in PkgOrder of the package the loop visits next;
                    \* Len(PkgOrder)+1 when the loop is at time.sleep(1)
    syncing_packages,
    daemonState,    \* the daemon process: "running" | "exit0" | "exit1"
    threads,        \* threads[p][k]: backend thread slot k of package p:
                    \* pc, the worker's answer (resp), started in this pass (cur)
    dispatched,     \* dispatched[p]: mirror.sync.start calls for p in this pass
    rpcs,           \* rpcs[p]: worker RPCs issued by the threads started in this pass
    workerUp,       \* whether the worker socket accepts connections
    \* ---- worker: process table and job registry
    procs,          \* procs[pid]: [job, st] of a child process slot
    jobs,           \* process._jobs as an insertion-ordered sequence of [id, pid]
    conn,           \* conn[h]: whether handler h's connection is open
    hpc,            \* hpc[h]: program counter of handler h
    hreq,           \* hreq[h]: job_id of the request handler h is serving
    hpid,           \* hpid[h]: pid of the child handler h spawned, 0 before
    hremove,        \* hremove[h]: prune_finished's to_remove list in handler h
    hreply,         \* hreply[h]: last response sent by handler h
    notified,       \* job_ids whose job_finished notification was broadcast
                    \* to a connected client; WorkerServer.send_finished_notification
                    \* is the only sender and nothing calls it
    \* ---- master: files and the loaded package table
    config_packages,\* "packages" of the config file: pkgid -> entry
    config_settings,\* the keys the "settings" object of the config file has
    stat_file,      \* the stat file: [exists, mirrorname, packages]
    stat_dict,      \* what the latest config.load read from the stat file
                    \* (its local stat_dict); None before the first load
    status_file,    \* the web status file: [exists, packages: pkgid -> status]
    keys,           \* mirror.packages._keys, the pkgids loaded in memory
    \* ---- one client connection to the worker server
    cinfo,          \* the client's handshake info: [app_name, protocol_version]
    cpc,            \* client: "new" | "hs_server" | "hs_confirm" | "connected" |
                    \*         "await" | "failed"
    spc,            \* server side of the connection: "listen" | "hs_client" |
                    \*         "serving" | "closed"
    s2c,            \* frames sent by the server and not yet received
    c2s,            \* frames sent by the client and not yet received
    confirm,        \* status of the handshake confirmation the client received, 0 before
    cseq,           \* number of send_command calls made on the connection
    clog,           \* every send_command call with its outcome, oldest first
    \* ---- the two processes
    masterUp,       \* the daemon's MasterServer is started and not stopped
    workerState,    \* the worker process: "running" | "exit0" | "exit1"
    \* ---- a syncrate on its way through toolbox
    dn,             \* the duration handed to iso_duration_maker
    dstr,           \* the string iso_duration_maker returned
    dback,          \* what iso_duration_parser made of that string
    dpc,            \* "input" | "made" | "rejected" | "parsed"
    \* ---- set_status calls statement by statement
    calls,          \* per caller, the set_status call it is inside: [pc, target, loaded]
    prog,           \* per caller, its position between its set_status calls
    errorWrites,    \* number of times line 111 has written "ERROR"
    \* ---- the event manager
    listeners,      \* EventManager._listeners: event name -> list of listeners
    registered,     \* per event, the listeners whose last on/off call was on
    posts,          \* the post_event calls made so far, in order of issue
    pool,           \* wrappers submitted to the executor and not yet run
    invoked,        \* the listener invocations that have taken place
    \* ---- the server object
    serverRunning,  \* BaseServer.running of the server the client connects to
    \* ---- one message through the framing layer
    fmsg,           \* the dict handed to _send_message
    fpeer,          \* the sending side: "ready" | "sent" | "closed"
    fwire,          \* bytes written by the sender that have not yet arrived
    fbuf,           \* bytes that have arrived and that recv has not yet taken
    fpc,            \* _recv_message: "header" | "body" | "returned" | "raised"
    flength,        \* the body length _recv_message unpacked from the header
    fdata,          \* the body bytes _recv_message has collected
    fresult         \* how _recv_message ended: [error, value]

pkgvars == <<status, errorcount, lastsync, timestamp, lastPosted, raised>>
cfgvars == <<syncrate, synctype, disabled, debug>>
loopvars == <<cursor, syncing_packages, daemonState, threads, dispatched, rpcs>>
regvars == <<procs, jobs>>
hvars == <<conn, hpc, hreq, hpid, hremove, hreply>>
filevars == <<config_packages, config_settings, stat_file, stat_dict, status_file, keys>>
sockvars == <<cinfo, cpc, spc, s2c, c2s, confirm, cseq, clog>>
exitvars == <<masterUp, workerState>>
durvars == <<dn, dstr, dback, dpc>>
racevars == <<calls, prog, errorWrites>>
evvars == <<listeners, registered, posts, pool, invoked>>
framevars == <<fmsg, fpeer, fwire, fbuf, fpc, flength, fdata, fresult>>
vars == <<pkgvars, cfgvars, now, loopvars, workerUp, regvars, hvars, notified, filevars, sockvars, exitvars, durvars, racevars, evvars, serverRunning, framevars>>

\* =================================================== Package.set_status

\* set_status line 103 and 105-108: the call goes through only for a valid
\* status different from the current one.
StatusChangesUnchecked(cur, target) == target # cur
StatusChanges(cur, target) == target # cur /\ target \in status_list

\* Package.status after set_status(target).
NewStatus(cur, target) == IF StatusChanges(cur, target) THEN target ELSE cur

NewErrorCountNoEarlyReturn(cur, ec, target) == IF target = "ERROR" THEN ec + 1 ELSE ec

\* Package.errorcount after set_status(target): lines 114-115.
NewErrorCount(cur, ec, target) ==
    IF StatusChanges(cur, target) /\ target = "ERROR" THEN ec + 1 ELSE ec

NewTimestampNoEarlyReturn(cur, ts, target) ==
    IF target \in status_list THEN now * 1000 ELSE ts
\* Package.timestamp after set_status(target): line 112, time.time() * 1000.
NewTimestamp(cur, ts, target) ==
    IF StatusChanges(cur, target) THEN now * 1000 ELSE ts

\* The events the call posts: lines 110 and 117.
PostedEvents(cur, target) ==
    IF StatusChanges(cur, target)
    THEN <<"MASTER.PACKAGE_STATUS_UPDATE.PRE", "MASTER.PACKAGE_STATUS_UPDATE.POST">>
    ELSE <<>>

\* Whether the call raises: line 107, an invalid status in debug mode.
Raises(cur, target) == target # cur /\ target \notin status_list /\ debug

\* package.set_status(target) as an effect on the package table.
set_status(p, target) ==
    /\ status' = [status EXCEPT ![p] = NewStatus(@, target)]
    /\ errorcount' = [errorcount EXCEPT ![p] = NewErrorCount(status[p], @, target)]
    /\ timestamp' = [timestamp EXCEPT ![p] = NewTimestamp(status[p], @, target)]
    /\ lastPosted' = PostedEvents(status[p], target)
    /\ raised' = Raises(status[p], target)

is_syncing_never(p) == FALSE
\* Package.is_syncing
is_syncing(p) == status[p] = "SYNC"

\* Package.is_disabled
is_disabled(p) == disabled[p]

\* ================================================ config and stat files

\* JSON objects are functions from keys to values; an absent key is a key
\* outside the DOMAIN, and both None and {} are the empty function.
None == <<>>

\* dict.get(key, default)
Get(d, key, default) == IF key \in DOMAIN d THEN d[key] ELSE default

\* Python truth value of a dict or None.
Truthy(d) == DOMAIN d # {}

\* A Python str is the sequence of its characters.
DigitChars == <<"0", "1", "2", "3", "4", "5", "6", "7", "8", "9">>
IsDigit(c) == \E i \in 1..Len(DigitChars) : DigitChars[i] = c
DigitValue(c) == (CHOOSE i \in 1..Len(DigitChars) : DigitChars[i] = c) - 1

\* str(n) for n >= 0, as in the f-strings of iso_duration_maker.
RECURSIVE Str(_)
Str(n) == IF n < 10 THEN <<DigitChars[n + 1]>>
          ELSE Str(n \div 10) \o <<DigitChars[(n % 10) + 1]>>

\* int(s) for a run of digits, as in iso_duration_parser lines 22-25.
RECURSIVE ParseInt(_)
ParseInt(cs) == IF cs = <<>> THEN 0
           ELSE 10 * ParseInt(SubSeq(cs, 1, Len(cs) - 1)) + DigitValue(cs[Len(cs)])

PUSH == <<"P", "U", "S", "H">>

\* The regular expression of iso_duration_parser lines 15-18, matched from
\* the left as re.match does. `\d+`: the number of digits from position i on.
RECURSIVE DigitRun(_, _)
DigitRun(cs, i) ==
    IF i <= Len(cs) /\ IsDigit(cs[i]) THEN 1 + DigitRun(cs, i + 1) ELSE 0

\* One optional group `((?P<name>\d+)X)?` tried at position i: it matches
\* when a run of digits is followed by the unit letter, and then consumes
\* both; otherwise it matches nothing and the group is None.
Group(cs, i, unit) ==
    LET k == DigitRun(cs, i) IN
    IF k > 0 /\ i + k <= Len(cs) /\ cs[i + k] = unit
    THEN [value |-> ParseInt(SubSeq(cs, i, i + k - 1)), next |-> i + k + 1]
    ELSE [value |-> 0, next |-> i]

\* toolbox.iso_duration_parser. The result is [raises, value]: the call
\* raises ValueError when the expression does not match.
iso_duration_parser(iso8601) ==
    IF iso8601 = <<>> THEN [raises |-> FALSE, value |-> 0]
    ELSE IF iso8601 = PUSH THEN [raises |-> FALSE, value |-> -1]
    ELSE IF iso8601[1] # "P" THEN [raises |-> TRUE, value |-> 0]
    ELSE
        LET years == Group(iso8601, 2, "Y")
            months == Group(iso8601, years.next, "M")
            weeks == Group(iso8601, months.next, "W")
            days == Group(iso8601, weeks.next, "D")
            time == days.next <= Len(iso8601) /\ iso8601[days.next] = "T"
            hours == IF time THEN Group(iso8601, days.next + 1, "H")
                     ELSE [value |-> 0, next |-> days.next]
            minutes == IF time THEN Group(iso8601, hours.next, "M")
                       ELSE [value |-> 0, next |-> days.next]
            seconds == IF time THEN Group(iso8601, minutes.next, "S")
                       ELSE [value |-> 0, next |-> days.next]
        IN  [raises |-> FALSE,
             value |-> days.value * 24 * 3600 + hours.value * 3600
                       + minutes.value * 60 + seconds.value]

\* f"{n}X" appended when n > 0 (iso_duration_maker lines 47-48, 55-56, 60-61,
\* 64-65).
Part(n, unit) == IF n > 0 THEN Str(n) \o <<unit>> ELSE <<>>

\* toolbox.iso_duration_maker. The result is [raises, value]: the call raises
\* ValueError below -1 and above MaxIsoDuration.
iso_duration_maker_no_T(duration) ==
    IF duration = -1 THEN [raises |-> FALSE, value |-> PUSH]
    ELSE IF duration < 0 \/ duration > MaxIsoDuration THEN [raises |-> TRUE, value |-> <<>>]
    ELSE IF duration = 0 THEN [raises |-> FALSE, value |-> <<>>]
    ELSE
        LET days == duration \div 86400
            rest == duration % 86400
        IN  [raises |-> FALSE,
             value |-> <<"P">> \o Part(days, "D")
                       \o Part(rest \div 3600, "H")
                       \o Part((rest % 3600) \div 60, "M")
                       \o Part((rest % 3600) % 60, "S")]
iso_duration_maker(duration) ==
    IF duration = -1 THEN [raises |-> FALSE, value |-> PUSH]
    ELSE IF duration < 0 \/ duration > MaxIsoDuration THEN [raises |-> TRUE, value |-> <<>>]
    ELSE IF duration = 0 THEN [raises |-> FALSE, value |-> <<>>]
    ELSE
        LET days == duration \div 86400
            rest == duration % 86400
        IN  [raises |-> FALSE,
             value |-> <<"P">> \o Part(days, "D")
                       \o (IF rest > 0 THEN <<"T">> ELSE <<>>)
                       \o Part(rest \div 3600, "H")
                       \o Part((rest % 3600) \div 60, "M")
                       \o Part((rest % 3600) % 60, "S")]

\* "mirrorname" of the config file, and the one an older stat file carries.
MirrorName == "mirror"
OldMirrorName == "mirror-old"

\* The declarative part of a package entry in the config file.
ConfigEntry(type, rate) == [synctype |-> type, syncrate |-> rate]

\* The syncrate string of each package in the config.
ConfiguredRates == [p \in Packages |-> IF p = "p1" THEN <<>> ELSE <<"P", "T", "2", "S">>]

\* The "status" object of a stat-file entry.
StatusObject(st, ec, ls) ==
    [status |-> st, statusinfo |-> [errorcount |-> ec, lastsync |-> ls]]

\* load line 57-59: a copy of the entry with its "status" key set.
WithStatus(entry, so) ==
    [k \in DOMAIN entry \cup {"status"} |-> IF k = "status" THEN so ELSE entry[k]]

\* load line 46 and 48: the packages of the stat file, {} when there is none.
ReadStat(file) == IF file.exists THEN file.packages ELSE None

KeepOrphans(cfg, pkgs) == pkgs

\* load lines 50-52: entries whose pkgid is not in the config are deleted.
DropOrphans(cfg, pkgs) == [id \in DOMAIN pkgs \cap DOMAIN cfg |-> pkgs[id]]

\* load line 55: final_stat_packages.get(pkg_id)
existing_stat(pkgs, id) == Get(pkgs, id, None)

status_to_preserve_none(existing) == None

status_to_preserve_nested(existing) ==
    IF Truthy(existing) /\ "status" \in DOMAIN existing
    THEN [status |-> Get(existing.status, "status", "UNKNOWN"),
          statusinfo |-> existing.status]
    ELSE None

\* load line 56: existing_stat.get("status") if existing_stat else None
status_to_preserve(existing) ==
    IF Truthy(existing) THEN Get(existing, "status", None) ELSE None

SeededStatusActive == StatusObject("ACTIVE", 0, 0)

\* load lines 61-64: the status object a package without preserved status gets.
SeededStatus == StatusObject("UNKNOWN", 0, 0)

\* load lines 54-64: the merged entry of a package of the config.
MergedEntry(pkg_config, existing) ==
    LET keep == status_to_preserve(existing) IN
    WithStatus(pkg_config, IF Truthy(keep) THEN keep ELSE SeededStatus)

\* load lines 48-64: final_stat_packages.
final_stat_packages(cfg, pkgs) ==
    LET kept == DropOrphans(cfg, pkgs) IN
    [id \in DOMAIN kept \cup DOMAIN cfg |->
        IF id \in DOMAIN cfg THEN MergedEntry(cfg[id], existing_stat(kept, id))
        ELSE kept[id]]

\* load lines 79-86 with Package.from_dict: what a stat entry becomes in memory.
LoadedStatus(entry) == Get(Get(entry, "status", None), "status", "UNKNOWN")
LoadedStatusInfo(entry) == Get(Get(entry, "status", None), "statusinfo", None)
LoadedErrorCount(entry) == Get(LoadedStatusInfo(entry), "errorcount", 0)
LoadedLastSync(entry) == Get(LoadedStatusInfo(entry), "lastsync", 0)

\* The stat file load writes for a package table (lines 67-72).
WrittenStat(pkgs) == [exists |-> TRUE, mirrorname |-> MirrorName, packages |-> pkgs]

\* The files of a daemon that has loaded every package of PkgOrder: the stat
\* file is the one load wrote from the in-memory values, and no web status
\* file exists.
\* The keys of "settings" that load and Config.load_from_dict read without
\* a default: load lines 34-40, load_from_dict line 222.
SettingKeys == {"statfile", "statusfile", "logfolder"}

InitFiles ==
    /\ config_settings = SettingKeys
    /\ config_packages =
         [p \in Packages |-> ConfigEntry(synctype[p], iso_duration_maker(syncrate[p]).value)]
    /\ stat_file = WrittenStat(
         [p \in Packages |-> WithStatus(config_packages[p],
                                StatusObject(status[p], errorcount[p], lastsync[p]))])
    /\ stat_dict = stat_file
    /\ status_file = [exists |-> FALSE, packages |-> None]
    /\ keys = Packages

\* ==================================================== socket protocol

\* socket/__init__.py: APP_NAME and the handshake info both sides build from
\* it and from PROTOCOL_VERSION.
APP_NAME == "mirror.py"
HandshakeInfo(app, version) == [app_name |-> app, protocol_version |-> version]
ServerInfo == HandshakeInfo(APP_NAME, PROTOCOL_VERSION)

\* No client has connected; the client's handshake info is the one BaseClient
\* builds.
InitSock ==
    /\ cinfo = HandshakeInfo(APP_NAME, PROTOCOL_VERSION)
    /\ cpc = "new"
    /\ spc = "listen"
    /\ s2c = <<>>
    /\ c2s = <<>>
    /\ confirm = 0
    /\ cseq = 0
    /\ clog = <<>>

\* BaseServer.stop line 267: `self.running = False`; the listening socket is
\* closed and the socket file removed.
Stopped == FALSE

\* The way a process ends: sys.exit(0) from signal_handler, sys.exit(1) from
\* the except clause round the main loop (daemon() lines 51-53 and 85-88,
\* worker() lines 45-48 and 56-59).
ExitStateAlwaysZero(cause) == "exit0"
ExitState(cause) == IF cause = "signal" THEN "exit0" ELSE "exit1"

\* daemon() lines 35-37 and worker() line 40: both processes run and the
\* daemon's MasterServer has been started.
InitExit ==
    /\ masterUp = TRUE
    /\ workerState = "running"

\* No duration is on its way through toolbox: syncrate 0 has gone through
\* iso_duration_maker and iso_duration_parser.
InitDur ==
    /\ dn = 0
    /\ dstr = iso_duration_maker(0).value
    /\ dback = iso_duration_parser(dstr).value
    /\ dpc = "parsed"

\* The threads that call set_status on a package: the scheduler (daemon's
\* main thread) and the backend threads mirror.sync.start creates for it.
BackendThreads == {"t1", "t2"}
Callers == {"sched"} \cup BackendThreads

\* A caller that is not inside set_status.
NoCall == [pc |-> "out", target |-> "none", loaded |-> 0]

\* No thread is inside set_status; the scheduler is in its loop and no
\* backend thread exists.
InitRace ==
    /\ calls = [c \in Callers |-> NoCall]
    /\ prog = [c \in Callers |-> IF c = "sched" THEN "loop" ELSE "none"]
    /\ errorWrites = 0

\* The events of the bus and the callables registered on them.
Events == {"e1"}
Listeners == {"l1", "l2"}

\* EventManager.__init__ lines 13-18: no listener is registered and the
\* executor has nothing to run.
InitEvent ==
    /\ listeners = [e \in Events |-> <<>>]
    /\ registered = [e \in Events |-> {}]
    /\ posts = <<>>
    /\ pool = {}
    /\ invoked = {}

\* What _recv_message has to show before it has ended.
NoResult == [error |-> "none", value |-> [k |-> -1]]

\* No message is on its way: the sender has written nothing and the receiver
\* waits for a header.
InitFrame ==
    /\ fmsg = [k |-> 0]
    /\ fpeer = "ready"
    /\ fwire = <<>>
    /\ fbuf = <<>>
    /\ fpc = "header"
    /\ flength = 0
    /\ fdata = <<>>
    /\ fresult = NoResult

\* BaseServer.start line 232: the server has been started and not stopped.
InitServer == serverRunning = TRUE

\* ============================================================== initial states

\* Package.from_dict on what config.load hands it: status, errorcount and
\* lastsync as the stat file preserved them, syncrate parsed from the config.
\* from_dict never sets disabled; timestamp is set by set_status only.
InitPackages(statuses) ==
    /\ status \in [Packages -> statuses]
    /\ errorcount = [p \in Packages |-> 0]
    /\ timestamp = [p \in Packages |-> -1]
    /\ lastPosted = <<>>
    /\ raised = FALSE
    /\ disabled = [p \in Packages |-> FALSE]

InitLoop ==
    /\ cursor = 1
    /\ syncing_packages = {}
    /\ daemonState = "running"
    /\ threads = [p \in Packages |-> [k \in 1..MaxThreads |-> NoThread]]
    /\ dispatched = [p \in Packages |-> 0]
    /\ rpcs = [p \in Packages |-> 0]

InitWorker ==
    /\ procs = [pid \in Pids |-> [job |-> "none", st |-> "free"]]
    /\ jobs = <<>>
    /\ conn = [h \in Handlers |-> FALSE]
    /\ hpc = [h \in Handlers |-> "idle"]
    /\ hreq = [h \in Handlers |-> "none"]
    /\ hpid = [h \in Handlers |-> 0]
    /\ hremove = [h \in Handlers |-> <<>>]
    /\ hreply = [h \in Handlers |-> "none"]
    /\ notified = {}

\* ================================================================ StatusSpec

StatusInit ==
    /\ InitPackages(status_list)
    /\ lastsync = [p \in Packages |-> 0]
    /\ syncrate = [p \in Packages |-> 0]
    /\ synctype = [p \in Packages |-> "rsync"]
    /\ debug \in BOOLEAN
    /\ now = StartTime
    /\ workerUp = TRUE
    /\ InitLoop
    /\ InitWorker
    /\ InitFiles
    /\ InitSock
    /\ InitExit
    /\ InitDur
    /\ InitRace
    /\ InitEvent
    /\ InitServer
    /\ InitFrame

\* Any caller invoking package.set_status(target).
CallSetStatus(p, target) ==
    /\ NewErrorCount(status[p], errorcount[p], target) <= MaxErrorCount
    /\ set_status(p, target)
    /\ UNCHANGED <<lastsync, cfgvars, now, loopvars, workerUp, regvars, hvars, notified, filevars, sockvars, exitvars, durvars, racevars, evvars, serverRunning, framevars>>

\* Wall-clock time passing between calls.
ClockAdvance ==
    /\ now < StartTime + MaxTick
    /\ now' = now + 1
    /\ UNCHANGED <<pkgvars, cfgvars, loopvars, workerUp, regvars, hvars, notified, filevars, sockvars, exitvars, durvars, racevars, evvars, serverRunning, framevars>>

StatusNext ==
    \/ \E p \in Packages, target \in Targets : CallSetStatus(p, target)
    \/ ClockAdvance

StatusSpec == StatusInit /\ [][StatusNext]_vars

\* C30: set_status with a target outside status_list leaves the package's
\* status, timestamp and errorcount as they were and posts no event; it
\* raises in debug mode and returns normally otherwise.
C30_InvalidTargetRejected ==
    [][\A p \in Packages, target \in Targets \ status_list :
        CallSetStatus(p, target) =>
            /\ status' = status
            /\ timestamp' = timestamp
            /\ errorcount' = errorcount
            /\ lastPosted' = <<>>
            /\ raised' = debug]_vars

\* A package whose status had been changed before was then given an invalid
\* target in debug mode: the call raised and posted nothing.
C30_Witness ==
    /\ debug /\ raised /\ lastPosted = <<>>
    /\ \E p \in Packages : timestamp[p] > 0 /\ status[p] \in status_list

\* C1: over any sequence of set_status calls, a step that moves a package into
\* ERROR from another status raises its errorcount by exactly one, and every
\* other step (into ACTIVE, SYNC, UNKNOWN, a repeated or an invalid target)
\* leaves errorcount as it was.
C1_ErrorCountOnlyOnEnteringError ==
    [][\A p \in Packages :
        IF status'[p] = "ERROR" /\ status[p] # "ERROR"
        THEN errorcount'[p] = errorcount[p] + 1
        ELSE errorcount'[p] = errorcount[p]]_vars

\* C40: set_status called with the package's current status changes neither
\* status, timestamp nor errorcount of any package and posts no event; so a
\* repeated set_status("ERROR") leaves errorcount as it is.
C40_SameStatusIsNoOp ==
    [][\A p \in Packages :
        CallSetStatus(p, status[p]) =>
            /\ status' = status
            /\ timestamp' = timestamp
            /\ errorcount' = errorcount
            /\ lastPosted' = <<>>
            /\ raised' = FALSE]_vars

\* In debug mode (an invalid target would have raised), a package entered
\* ERROR once, time has passed since, and the latest call, which did not
\* raise, posted nothing and left the timestamp of that transition.
C40_Witness ==
    /\ debug /\ ~raised /\ lastPosted = <<>>
    /\ \E p \in Packages :
          /\ status[p] = "ERROR" /\ errorcount[p] = 1
          /\ timestamp[p] >= 0 /\ timestamp[p] < now * 1000

\* C1 witness: a package that entered ERROR twice (with another status in
\* between) and whose latest call was that second transition.
C1_Witness ==
    \E p \in Packages :
        /\ status[p] = "ERROR"
        /\ errorcount[p] = 2
        /\ Len(lastPosted) = 2
        /\ timestamp[p] > StartTime * 1000

\* ============================================ worker: process table, registry

\* Job.is_running of the job whose child is pid: process.poll() is None.
is_running(pid) == procs[pid].st = "running"

\* `job_id in _jobs`
InRegistry(js, id) == \E i \in 1..Len(js) : js[i].id = id

\* _jobs.get(job_id) as the pid of the registered child, 0 for None.
get(js, id) ==
    IF InRegistry(js, id)
    THEN (CHOOSE e \in {js[i] : i \in 1..Len(js)} : e.id = id).pid
    ELSE 0

\* `_jobs[self.id] = self`: an existing key keeps its place, a new one is appended.
Put(js, id, pid) ==
    IF InRegistry(js, id)
    THEN [i \in 1..Len(js) |-> IF js[i].id = id THEN [id |-> id, pid |-> pid] ELSE js[i]]
    ELSE Append(js, [id |-> id, pid |-> pid])

\* `del _jobs[wid]` for a wid that is present.
Del(js, id) == SelectSeq(js, LAMBDA e : e.id # id)

\* prune_finished lines 232-243: the ids of the registered jobs that are not
\* running, in registry order (no job has a log thread: set_log_path is not
\* called by the server).
to_remove(js) ==
    LET done == SelectSeq(js, LAMBDA e : ~is_running(e.pid))
    IN  [i \in 1..Len(done) |-> done[i].id]

\* prune_finished lines 245-246: delete the listed ids one after the other;
\* a listed id that is no longer registered raises KeyError and ends the loop.
RECURSIVE DeleteListed(_, _)
DeleteListed(js, rm) ==
    IF rm = <<>> THEN [jobs |-> js, ok |-> TRUE]
    ELSE IF ~InRegistry(js, Head(rm)) THEN [jobs |-> js, ok |-> FALSE]
    ELSE DeleteListed(Del(js, Head(rm)), Tail(rm))

\* prune_finished run without interruption.
prune_finished(js) == DeleteListed(js, to_remove(js)).jobs

\* Job.start's except clause, lines 109-114: Popen raised, line 108 was not
\* reached and the registry is as create found it.
StartFailedRegistered(js, id) == Put(js, id, 1)
StartFailed(js, id) == js

\* subprocess.Popen: the pid the new child gets (the lowest free slot), 0 if
\* the process table is full.
FreePids == {pid \in Pids : procs[pid].st = "free"}
NewPid == IF FreePids = {} THEN 0 ELSE CHOOSE pid \in FreePids : \A q \in FreePids : pid <= q

\* A child slot is released once the child has exited and neither the registry
\* nor a handler thread still holds its Popen object.
Held(js, hp, pid) ==
    \/ \E i \in 1..Len(js) : js[i].pid = pid
    \/ \E h \in Handlers : hp[h] = pid
Release(pr, js, hp) ==
    [pid \in Pids |->
        IF pr[pid].st = "exited" /\ ~Held(js, hp, pid)
        THEN [job |-> "none", st |-> "free"] ELSE pr[pid]]

\* The commands WorkerServer registers with @expose.
WorkerCommands == {"ping", "status", "execute_command", "stop_command", "get_progress"}

\* A child process terminates by itself.
ChildExit(pid) ==
    /\ is_running(pid)
    /\ procs' = Release([procs EXCEPT ![pid].st = "exited"], jobs, hpid)
    /\ UNCHANGED <<pkgvars, cfgvars, now, loopvars, workerUp, jobs, hvars, notified, filevars, sockvars, exitvars, durvars, racevars, evvars, serverRunning, framevars>>

\* ======================================================== daemon loop (Spec)
\* The daemon has just started its MasterServer; the worker is running, or
\* has been stopped before the daemon started.

Init ==
    /\ InitPackages({"UNKNOWN", "SYNC"})
    /\ lastsync = [p \in Packages |-> 0]
    /\ syncrate \in [Packages -> SyncRates]
    /\ synctype = ConfiguredTypes
    /\ debug = FALSE
    /\ now = StartTime
    /\ workerUp \in BOOLEAN
    /\ InitLoop
    /\ InitWorker
    /\ InitFiles
    /\ InitSock
    /\ masterUp = TRUE
    /\ workerState = IF workerUp THEN "running" ELSE ExitState("signal")
    /\ InitDur
    /\ InitRace
    /\ InitEvent
    /\ InitServer
    /\ InitFrame

NextCursorStuck(i) == i

\* The for loop of daemon(): the next element of mirror.packages.values().
NextCursor(i) == i + 1

\* daemon() line 77: the package is due.
IsDue(p) == now - lastsync[p] > syncrate[p]

\* Live backend threads of p, and the lowest free slot.
LiveThreads(p) == {k \in 1..MaxThreads : threads[p][k].pc # "none"}
FreeSlot(p) == CHOOSE k \in 1..MaxThreads :
    /\ threads[p][k].pc = "none"
    /\ \A j \in 1..MaxThreads : threads[p][j].pc = "none" => k <= j

\* daemon() lines 63-70: a disabled package, or one that is syncing, is skipped.
VisitSkip(i) ==
    LET p == PkgOrder[i] IN
    /\ daemonState = "running" /\ cursor = i
    /\ is_disabled(p) \/ is_syncing(p)
    /\ syncing_packages' = IF is_disabled(p) THEN syncing_packages
                           ELSE syncing_packages \cup {p}
    /\ cursor' = NextCursor(i)
    /\ UNCHANGED <<pkgvars, cfgvars, now, daemonState, threads, dispatched, rpcs,
                   workerUp, regvars, hvars, notified, filevars, sockvars, exitvars, durvars, racevars, evvars, serverRunning, framevars>>

\* daemon() lines 72-77: the package is neither syncing nor due.
VisitIdle(i) ==
    LET p == PkgOrder[i] IN
    /\ daemonState = "running" /\ cursor = i
    /\ ~is_disabled(p) /\ ~is_syncing(p) /\ ~IsDue(p)
    /\ syncing_packages' = syncing_packages \ {p}
    /\ cursor' = NextCursor(i)
    /\ UNCHANGED <<pkgvars, cfgvars, now, daemonState, threads, dispatched, rpcs,
                   workerUp, regvars, hvars, notified, filevars, sockvars, exitvars, durvars, racevars, evvars, serverRunning, framevars>>

\* daemon() lines 77-81 with mirror.sync.start lines 45-65: set_status("SYNC"),
\* create the package logger, set_status("SYNC") again (no change) and start
\* the backend's execute in a new thread.
VisitDispatch(i) ==
    LET p == PkgOrder[i]
        k == FreeSlot(p) IN
    /\ daemonState = "running" /\ cursor = i
    /\ ~is_disabled(p) /\ ~is_syncing(p) /\ IsDue(p)
    /\ Cardinality(LiveThreads(p)) < MaxThreads
    /\ errorcount[p] < MaxErrorCount
    /\ syncing_packages' = syncing_packages \ {p}
    /\ set_status(p, "SYNC")
    /\ threads' = [threads EXCEPT ![p][k] = [pc |-> "enter", resp |-> "none", cur |-> TRUE]]
    /\ dispatched' = [dispatched EXCEPT ![p] = @ + 1]
    /\ cursor' = NextCursor(i)
    /\ UNCHANGED <<lastsync, cfgvars, now, daemonState, rpcs, workerUp, regvars, hvars, notified, filevars, sockvars, exitvars, durvars, racevars, evvars, serverRunning, framevars>>

\* daemon() lines 80-88 when mirror.logger.create_logger raises inside
\* mirror.sync.start (log folder or file cannot be created): the package was
\* already set to SYNC, the exception reaches the loop's except clause and the
\* daemon exits with code 1.
VisitDispatchLoggerFail(i) ==
    LET p == PkgOrder[i] IN
    /\ daemonState = "running" /\ cursor = i
    /\ ~is_disabled(p) /\ ~is_syncing(p) /\ IsDue(p)
    /\ syncing_packages' = syncing_packages \ {p}
    /\ set_status(p, "SYNC")
    /\ daemonState' = ExitState("exception")
    /\ masterUp' = Stopped
    /\ UNCHANGED <<lastsync, cfgvars, now, cursor, threads, dispatched, rpcs,
                   workerUp, regvars, hvars, notified, filevars, sockvars, workerState, durvars, racevars, evvars, serverRunning, framevars>>

\* daemon() lines 49-55: SIGINT or SIGTERM is delivered to the running
\* daemon; signal_handler stops the MasterServer and calls sys.exit(0).
DaemonSignal ==
    /\ daemonState = "running"
    /\ daemonState' = ExitState("signal")
    /\ masterUp' = Stopped
    /\ UNCHANGED <<pkgvars, cfgvars, now, cursor, syncing_packages, threads, dispatched,
                   rpcs, workerUp, regvars, hvars, notified, filevars, sockvars, workerState, durvars, racevars, evvars, serverRunning, framevars>>

\* daemon() line 84: time.sleep(1) ends the pass; the next pass starts.
Sleep ==
    /\ daemonState = "running" /\ cursor = Len(PkgOrder) + 1
    /\ now < StartTime + MaxTick
    /\ now' = now + 1
    /\ cursor' = 1
    /\ dispatched' = [p \in Packages |-> 0]
    /\ rpcs' = [p \in Packages |-> 0]
    /\ threads' = [p \in Packages |-> [k \in 1..MaxThreads |-> [threads[p][k] EXCEPT !.cur = FALSE]]]
    /\ UNCHANGED <<pkgvars, cfgvars, syncing_packages, daemonState, workerUp, regvars, hvars, notified, filevars, sockvars, exitvars, durvars, racevars, evvars, serverRunning, framevars>>

\* ============================================== backend threads (execute)

\* The RPC name the backend's execute sends: ftpsync calls
\* client.execute_command; rsync calls client.start_sync, which
\* BaseClient.__getattr__ turns into send_command("start_sync").
Command(method) == IF method = "ftpsync" THEN "execute_command" ELSE "start_sync"

ResultStatusIgnoreFailure(resp) == IF resp = "started" THEN "ACTIVE" ELSE "SYNC"

\* The status execute sets once the delegation is over: ACTIVE when the
\* worker answered "started", ERROR from the except clause otherwise.
ResultStatus(resp) == IF resp = "started" THEN "ACTIVE" ELSE "ERROR"

\* The answers that make execute take its except clause.
Failures == {"setup_failed", "unreachable", "404", "500_exists", "500_spawn"}
\* Those of them that are a failure of the worker RPC (connect or call).
RpcFailures == {"unreachable", "404", "500_exists", "500_spawn"}

Thread(p, k) == threads[p][k]
Running(p, k, pc) == daemonState = "running" /\ threads[p][k].pc = pc
Answer(p, k, resp) == [threads EXCEPT ![p][k].pc = "reply", ![p][k].resp = resp]
CountRpc(p, k) == [rpcs EXCEPT ![p] = IF threads[p][k].cur THEN @ + 1 ELSE @]

\* execute's first statement: package.set_status("SYNC").
ExecuteEnter(p, k) ==
    /\ Running(p, k, "enter")
    /\ set_status(p, "SYNC")
    /\ threads' = [threads EXCEPT ![p][k].pc = "try"]
    /\ UNCHANGED <<lastsync, cfgvars, now, cursor, syncing_packages, daemonState,
                   dispatched, rpcs, workerUp, regvars, hvars, notified, filevars, sockvars, exitvars, durvars, racevars, evvars, serverRunning, framevars>>

\* ftpsync.execute lines 58-60: creating the temporary directory raises before
\* the try block is entered; the thread ends and nothing resets the status.
ExecuteCrash(p, k) ==
    /\ Running(p, k, "try") /\ synctype[p] = "ftpsync"
    /\ threads' = [threads EXCEPT ![p][k] = NoThread]
    /\ UNCHANGED <<pkgvars, cfgvars, now, cursor, syncing_packages, daemonState,
                   dispatched, rpcs, workerUp, regvars, hvars, notified, filevars, sockvars, exitvars, durvars, racevars, evvars, serverRunning, framevars>>

\* ftpsync.execute line 65: setup_ftpsync raises.
DelegateSetupFail(p, k) ==
    /\ Running(p, k, "try") /\ synctype[p] = "ftpsync"
    /\ threads' = Answer(p, k, "setup_failed")
    /\ UNCHANGED <<pkgvars, cfgvars, now, cursor, syncing_packages, daemonState,
                   dispatched, rpcs, workerUp, regvars, hvars, notified, filevars, sockvars, exitvars, durvars, racevars, evvars, serverRunning, framevars>>

\* `with WorkerClient(socket_path)`: BaseClient.connect raises ConnectionError.
DelegateUnreachable(p, k) ==
    /\ Running(p, k, "try") /\ ~workerUp
    /\ threads' = Answer(p, k, "unreachable")
    /\ UNCHANGED <<pkgvars, cfgvars, now, cursor, syncing_packages, daemonState,
                   dispatched, rpcs, workerUp, regvars, hvars, notified, filevars, sockvars, exitvars, durvars, racevars, evvars, serverRunning, framevars>>

\* The request names a command the worker has no handler for:
\* BaseServer._handle_connection answers 404 and send_command raises.
DelegateNotFound(p, k) ==
    /\ Running(p, k, "try") /\ workerUp
    /\ Command(synctype[p]) \notin WorkerCommands
    /\ threads' = Answer(p, k, "404")
    /\ rpcs' = CountRpc(p, k)
    /\ UNCHANGED <<pkgvars, cfgvars, now, cursor, syncing_packages, daemonState,
                   dispatched, workerUp, regvars, hvars, notified, filevars, sockvars, exitvars, durvars, racevars, evvars, serverRunning, framevars>>

\* WorkerServer._handle_execute_command: prune_finished, then process.create
\* finds the job_id registered and raises ValueError (answer 500).
DelegateExists(p, k) ==
    /\ Running(p, k, "try") /\ workerUp
    /\ Command(synctype[p]) = "execute_command"
    /\ InRegistry(prune_finished(jobs), p)
    /\ jobs' = prune_finished(jobs)
    /\ procs' = Release(procs, jobs', hpid)
    /\ threads' = Answer(p, k, "500_exists")
    /\ rpcs' = CountRpc(p, k)
    /\ UNCHANGED <<pkgvars, cfgvars, now, cursor, syncing_packages, daemonState,
                   dispatched, workerUp, hvars, notified, filevars, sockvars, exitvars, durvars, racevars, evvars, serverRunning, framevars>>

\* _handle_execute_command: prune_finished, create, and Job.start's Popen
\* raises (answer 500); the job is not registered.
DelegateSpawnFail(p, k) ==
    /\ Running(p, k, "try") /\ workerUp
    /\ Command(synctype[p]) = "execute_command"
    /\ ~InRegistry(prune_finished(jobs), p)
    /\ jobs' = prune_finished(jobs)
    /\ procs' = Release(procs, jobs', hpid)
    /\ threads' = Answer(p, k, "500_spawn")
    /\ rpcs' = CountRpc(p, k)
    /\ UNCHANGED <<pkgvars, cfgvars, now, cursor, syncing_packages, daemonState,
                   dispatched, workerUp, hvars, notified, filevars, sockvars, exitvars, durvars, racevars, evvars, serverRunning, framevars>>

\* _handle_execute_command: prune_finished, create, Job.start spawns the child
\* and registers the job; the answer is status "started".
DelegateStarted(p, k) ==
    LET pruned == prune_finished(jobs)
        freed == Release(procs, pruned, hpid)
        free == {pid \in Pids : freed[pid].st = "free"}
        pid == CHOOSE c \in free : \A q \in free : c <= q IN
    /\ Running(p, k, "try") /\ workerUp
    /\ Command(synctype[p]) = "execute_command"
    /\ ~InRegistry(pruned, p)
    /\ free # {}
    /\ jobs' = Put(pruned, p, pid)
    /\ procs' = [freed EXCEPT ![pid] = [job |-> p, st |-> "running"]]
    /\ threads' = Answer(p, k, "started")
    /\ rpcs' = CountRpc(p, k)
    /\ UNCHANGED <<pkgvars, cfgvars, now, cursor, syncing_packages, daemonState,
                   dispatched, workerUp, hvars, notified, filevars, sockvars, exitvars, durvars, racevars, evvars, serverRunning, framevars>>

\* execute after the worker answered "started": package.lastsync = time.time()
\* and set_status("ACTIVE").
ExecuteStarted(p, k) ==
    /\ Running(p, k, "reply") /\ Thread(p, k).resp = "started"
    /\ lastsync' = [lastsync EXCEPT ![p] = now]
    /\ set_status(p, ResultStatus(Thread(p, k).resp))
    /\ threads' = [threads EXCEPT ![p][k] = NoThread]
    /\ UNCHANGED <<cfgvars, now, cursor, syncing_packages, daemonState,
                   dispatched, rpcs, workerUp, regvars, hvars, notified, filevars, sockvars, exitvars, durvars, racevars, evvars, serverRunning, framevars>>

\* execute's except clause: package.set_status("ERROR").
ExecuteFailed(p, k) ==
    /\ Running(p, k, "reply") /\ Thread(p, k).resp \in Failures
    /\ NewErrorCount(status[p], errorcount[p], ResultStatus(Thread(p, k).resp)) <= MaxErrorCount
    /\ set_status(p, ResultStatus(Thread(p, k).resp))
    /\ threads' = [threads EXCEPT ![p][k] = NoThread]
    /\ UNCHANGED <<lastsync, cfgvars, now, cursor, syncing_packages, daemonState,
                   dispatched, rpcs, workerUp, regvars, hvars, notified, filevars, sockvars, exitvars, durvars, racevars, evvars, serverRunning, framevars>>

\* The worker process ends (command/worker.py signal_handler: server.stop(),
\* sys.exit(0)): its socket and its in-memory registry are gone, its children
\* are not signalled.
WorkerStop ==
    /\ workerUp
    /\ workerUp' = Stopped
    /\ workerState' = ExitState("signal")
    /\ jobs' = <<>>
    /\ procs' = Release(procs, jobs', hpid)
    /\ UNCHANGED <<pkgvars, cfgvars, now, loopvars, hvars, notified, filevars, sockvars, masterUp, durvars, racevars, evvars, serverRunning, framevars>>

\* worker() lines 53-59: the worker's main loop raises; the except clause
\* stops the server and calls sys.exit(1). The registry goes with the process.
WorkerLoopFail ==
    /\ workerUp
    /\ workerUp' = Stopped
    /\ workerState' = ExitState("exception")
    /\ jobs' = <<>>
    /\ procs' = Release(procs, jobs', hpid)
    /\ UNCHANGED <<pkgvars, cfgvars, now, loopvars, hvars, notified, filevars, sockvars, masterUp, durvars, racevars, evvars, serverRunning, framevars>>

Next ==
    \/ \E i \in 1..Len(PkgOrder) : VisitSkip(i)
    \/ \E i \in 1..Len(PkgOrder) : VisitIdle(i)
    \/ \E i \in 1..Len(PkgOrder) : VisitDispatch(i)
    \/ \E i \in 1..Len(PkgOrder) : VisitDispatchLoggerFail(i)
    \/ Sleep
    \/ \E p \in Packages, k \in 1..MaxThreads : ExecuteEnter(p, k)
    \/ \E p \in Packages, k \in 1..MaxThreads : ExecuteCrash(p, k)
    \/ \E p \in Packages, k \in 1..MaxThreads : DelegateSetupFail(p, k)
    \/ \E p \in Packages, k \in 1..MaxThreads : DelegateUnreachable(p, k)
    \/ \E p \in Packages, k \in 1..MaxThreads : DelegateNotFound(p, k)
    \/ \E p \in Packages, k \in 1..MaxThreads : DelegateExists(p, k)
    \/ \E p \in Packages, k \in 1..MaxThreads : DelegateSpawnFail(p, k)
    \/ \E p \in Packages, k \in 1..MaxThreads : DelegateStarted(p, k)
    \/ \E p \in Packages, k \in 1..MaxThreads : ExecuteStarted(p, k)
    \/ \E p \in Packages, k \in 1..MaxThreads : ExecuteFailed(p, k)
    \/ \E pid \in Pids : ChildExit(pid)
    \/ WorkerStop

Spec == Init /\ [][Next]_vars

\* The daemon and the worker with the ways they end: every package starts
\* UNKNOWN, and besides the steps of Spec a signal can reach the daemon and
\* the worker's main loop can raise.
ExitInit == Init /\ status = [p \in Packages |-> "UNKNOWN"]

ExitNext ==
    \/ Next
    \/ DaemonSignal
    \/ WorkerLoopFail

ExitSpec == ExitInit /\ [][ExitNext]_vars

\* The except clause round the daemon's main loop is taken in this step.
DaemonRaises == \E i \in 1..Len(PkgOrder) : VisitDispatchLoggerFail(i)

\* C23: a handled SIGINT/SIGTERM ends the daemon, and the worker, with exit
\* code 0 and an exception out of the main loop ends it with exit code 1; in
\* both cases the process has stopped its socket server, and a process ends in
\* no other way.
C23_ExitCodes ==
    [][/\ DaemonSignal => daemonState' = "exit0" /\ ~masterUp'
       /\ DaemonRaises => daemonState' = "exit1" /\ ~masterUp'
       /\ daemonState' # daemonState => DaemonSignal \/ DaemonRaises
       /\ masterUp' <=> daemonState' = "running"
       /\ WorkerStop => workerState' = "exit0" /\ ~workerUp'
       /\ WorkerLoopFail => workerState' = "exit1" /\ ~workerUp'
       /\ workerState' # workerState => WorkerStop \/ WorkerLoopFail
       /\ workerUp' <=> workerState' = "running"]_vars

\* The daemon has ended on a signal and the worker on an exception.
C23_Witness ==
    /\ daemonState = "exit0" /\ ~masterUp
    /\ workerState = "exit1" /\ ~workerUp

\* is_worker_running(job_id) (socket/worker.py): what the worker reports for a
\* job id, False when it cannot be reached; get_progress prunes, then answers
\* job.is_running for a registered job.
is_worker_running(id) ==
    /\ workerUp
    /\ InRegistry(jobs, id)
    /\ is_running(get(jobs, id))

\* The step in which backend thread k of package p ends with answer set R.
Finishes(p, k, R) ==
    /\ threads[p][k].pc = "reply"
    /\ threads[p][k].resp \in R
    /\ threads'[p][k].pc = "none"

C6_StaleSyncSwept ==
    [][\A i \in 1..Len(PkgOrder) :
        (/\ cursor = i /\ cursor' = i + 1
         /\ status[PkgOrder[i]] = "SYNC"
         /\ ~is_worker_running(PkgOrder[i])
         /\ now - lastsync[PkgOrder[i]] > 60)
        => status'[PkgOrder[i]] = "ERROR"]_vars

\* C7 (as claimed): the loop never dispatches a push-only package
\* (syncrate -1).
C7_PushNeverDispatched ==
    \A p \in Packages : syncrate[p] = -1 => dispatched[p] = 0

\* C8 (as claimed): a package that a failed dispatch put in ERROR is not
\* dispatched again before errorcontinuetime seconds have passed since then.
C8_RetryWaitsErrorContinueTime ==
    [][\A p \in Packages :
        (/\ dispatched'[p] = dispatched[p] + 1
         /\ status[p] = "ERROR" /\ timestamp[p] # -1)
        => now * 1000 - timestamp[p] >= ErrorContinueTime * 1000]_vars

\* C9 (as claimed): when the worker answered "started", the backend leaves the
\* package in SYNC; only a job_finished notification makes it ACTIVE.
C9_StartedLeavesSync ==
    [][\A p \in Packages, k \in 1..MaxThreads :
        Finishes(p, k, {"started"}) => status'[p] = "SYNC"]_vars

\* C10: when the worker RPC of a dispatch fails (worker unreachable, error
\* answer, spawn failure), the backend thread leaves the package in ERROR with
\* errorcount raised by exactly one, and the scheduler loop is not stopped or
\* moved by it: it goes on with the packages that remain in the pass.
C10_RpcFailureSetsError ==
    [][\A p \in Packages, k \in 1..MaxThreads :
        Finishes(p, k, RpcFailures) =>
            /\ status'[p] = "ERROR"
            /\ errorcount'[p] = errorcount[p] + 1
            /\ daemonState' = "running"
            /\ cursor' = cursor]_vars

\* C10 witness: the first package's RPC was issued in this pass and failed
\* (it is ERROR with errorcount 1 and its thread is over), and the loop went
\* on in the same pass to dispatch the second package and reach its sleep.
C10_Witness ==
    /\ daemonState = "running"
    /\ synctype["p1"] = "rsync" /\ rpcs["p1"] = 1 /\ dispatched["p1"] = 1
    /\ LiveThreads("p1") = {}
    /\ status["p1"] = "ERROR" /\ errorcount["p1"] = 1 /\ timestamp["p1"] = now * 1000
    /\ dispatched["p2"] = 1
    /\ cursor = Len(PkgOrder) + 1

\* The step in which backend thread k of package p sends execute_command to
\* the worker and is answered.
IssuesExecuteCommand(p, k) ==
    /\ threads[p][k].pc = "try"
    /\ threads'[p][k].pc = "reply"
    /\ threads'[p][k].resp \in {"started", "500_exists", "500_spawn"}

\* C11 (as claimed): no execute_command is issued for a package while the
\* worker reports a live job with that job_id.
C11_NoDispatchWhileJobLive ==
    [][\A p \in Packages, k \in 1..MaxThreads :
        IssuesExecuteCommand(p, k) => ~is_worker_running(p)]_vars

\* The scheduler starts a backend thread for p in this step.
StartsDispatch(p) == dispatched'[p] = dispatched[p] + 1

\* C38: for each package at most one dispatch is in flight: the scheduler
\* starts a backend thread for a package only when no earlier thread of the
\* package is still to write its final status (the package is not SYNC and
\* has no live thread), so a package never has two live threads, and while
\* it has one it is SYNC.
C38_OneDispatchInFlight ==
    [][\A p \in Packages :
          /\ StartsDispatch(p) => LiveThreads(p) = {} /\ status[p] # "SYNC"
          /\ Cardinality(LiveThreads(p)') <= 1
          /\ LiveThreads(p)' # {} => status'[p] = "SYNC"]_vars

\* C38 witness: the package's first thread has written ERROR and ended, the
\* package was due again and the scheduler dispatched it a second time: it is
\* SYNC with one live thread.
C38_Witness ==
    \E p \in Packages :
        /\ errorcount[p] = 1 /\ timestamp[p] # -1
        /\ status[p] = "SYNC" /\ dispatched[p] = 1
        /\ Cardinality(LiveThreads(p)) = 1

\* A step of backend thread k of package p: the thread runs execute from its
\* first statement to its end.
ThreadStep(p, k) ==
    \/ ExecuteEnter(p, k)
    \/ ExecuteCrash(p, k)
    \/ DelegateSetupFail(p, k)
    \/ DelegateUnreachable(p, k)
    \/ DelegateNotFound(p, k)
    \/ DelegateExists(p, k)
    \/ DelegateSpawnFail(p, k)
    \/ DelegateStarted(p, k)
    \/ ExecuteStarted(p, k)
    \/ ExecuteFailed(p, k)

\* daemon() line 84 after the last second the model counts: time.sleep(1)
\* ends the pass and the next pass starts; the clock is no longer advanced.
SleepOn ==
    /\ daemonState = "running" /\ cursor = Len(PkgOrder) + 1
    /\ now = StartTime + MaxTick
    /\ cursor' = 1
    /\ dispatched' = [p \in Packages |-> 0]
    /\ rpcs' = [p \in Packages |-> 0]
    /\ threads' = [p \in Packages |-> [k \in 1..MaxThreads |-> [threads[p][k] EXCEPT !.cur = FALSE]]]
    /\ UNCHANGED <<pkgvars, cfgvars, now, syncing_packages, daemonState, workerUp, regvars, hvars, notified, filevars, sockvars, exitvars, durvars, racevars, evvars, serverRunning, framevars>>

\* A step of the scheduler loop.
LoopStep ==
    \/ \E i \in 1..Len(PkgOrder) : VisitSkip(i) \/ VisitIdle(i) \/ VisitDispatch(i)
    \/ Sleep
    \/ SleepOn

FairNext == Next \/ SleepOn

\* The daemon loop going on for ever, with the scheduling of the
\* interpreter: the main thread and every started backend thread keep being
\* run while they have a step to take.
FairSpec ==
    /\ Init /\ [][FairNext]_vars
    /\ WF_vars(LoopStep)
    /\ \A p \in Packages, k \in 1..MaxThreads : WF_vars(ThreadStep(p, k))

\* C39 (as claimed): every package the scheduler puts into SYNC eventually
\* leaves SYNC while the daemon runs, whether the worker is reachable or not
\* and whether or not the backend's preparation steps fail.
C39_SyncEventuallyLeft ==
    \A p \in Packages :
        (status[p] = "SYNC" /\ LiveThreads(p) # {})
            ~> (status[p] # "SYNC" \/ daemonState # "running")

\* ================================================= worker server (WorkerSpec)

\* The sync methods shipped in src/mirror/sync.
methods == {"rsync", "ftpsync", "lftp", "bandersnatch"}

\* Backend thread k of package p gets the worker's answer to its RPC in this
\* step: the worker is reachable and the job_id is not in the registry.
DispatchAnswered(p, k) ==
    /\ threads[p][k].pc = "try"
    /\ threads'[p][k].pc = "reply"
    /\ threads'[p][k].resp \notin {"setup_failed", "unreachable"}
    /\ workerUp
    /\ ~InRegistry(prune_finished(jobs), p)

\* C21: every backend's RPC names a command the worker registers, so a
\* dispatch to a reachable worker with a job_id not in the registry is never
\* answered 404: it is answered "started", or 500 when the spawn itself fails.
C21_DispatchNeverNotFound ==
    [][\A p \in Packages, k \in 1..MaxThreads :
        DispatchAnswered(p, k) =>
            /\ Command(synctype[p]) \in WorkerCommands
            /\ threads'[p][k].resp \in {"started", "500_spawn"}]_vars

\* C22: when the worker's shutdown handler has run, no child the worker
\* started is still running: every running job was sent terminate.
C22_ShutdownStopsJobs ==
    [][WorkerStop => \A pid \in Pids : procs'[pid].st # "running"]_vars

mastervars == <<pkgvars, cfgvars, now, loopvars, workerUp>>

WorkerInit ==
    /\ status = [p \in Packages |-> "UNKNOWN"]
    /\ errorcount = [p \in Packages |-> 0]
    /\ timestamp = [p \in Packages |-> -1]
    /\ lastPosted = <<>>
    /\ raised = FALSE
    /\ disabled = [p \in Packages |-> FALSE]
    /\ lastsync = [p \in Packages |-> 0]
    /\ syncrate = [p \in Packages |-> 0]
    /\ synctype = ConfiguredTypes
    /\ debug = FALSE
    /\ now = StartTime
    /\ workerUp = TRUE
    /\ InitLoop
    /\ InitWorker
    /\ InitFiles
    /\ InitSock
    /\ InitExit
    /\ InitDur
    /\ InitRace
    /\ InitEvent
    /\ InitServer
    /\ InitFrame

AlreadyExistsNever(id) == FALSE

\* process.create lines 208-209: `if job_id in _jobs: raise ValueError`.
AlreadyExists(id) == InRegistry(jobs, id)

\* BaseServer._accept_loop: a master client connects, the handshake succeeds
\* and handler thread h serves the connection.
Accept(h) ==
    /\ ~conn[h] /\ hpc[h] = "idle"
    /\ conn' = [conn EXCEPT ![h] = TRUE]
    /\ UNCHANGED <<mastervars, regvars, hpc, hreq, hpid, hremove, hreply, notified, filevars, sockvars, exitvars, durvars, racevars, evvars, serverRunning, framevars>>

\* BaseServer._handle_connection lines 185-187 and 216-217: the client closed
\* the connection; the handler thread ends.
Close(h) ==
    /\ conn[h] /\ hpc[h] = "idle"
    /\ conn' = [conn EXCEPT ![h] = FALSE]
    /\ hreq' = [hreq EXCEPT ![h] = "none"]
    /\ hreply' = [hreply EXCEPT ![h] = "none"]
    /\ UNCHANGED <<mastervars, regvars, hpc, hpid, hremove, notified, filevars, sockvars, exitvars, durvars, racevars, evvars, serverRunning, framevars>>

\* _handle_connection reads an execute_command request for job_id id and
\* calls WorkerServer._handle_execute_command.
RecvExecute(h, id) ==
    /\ conn[h] /\ hpc[h] = "idle"
    /\ hreq' = [hreq EXCEPT ![h] = id]
    /\ hreply' = [hreply EXCEPT ![h] = "none"]
    /\ hpc' = [hpc EXCEPT ![h] = "prune"]
    /\ UNCHANGED <<mastervars, regvars, conn, hpid, hremove, notified, filevars, sockvars, exitvars, durvars, racevars, evvars, serverRunning, framevars>>

\* prune_finished lines 232-243 in handler h: collect the finished jobs.
HPruneSelect(h) ==
    /\ hpc[h] = "prune"
    /\ hremove' = [hremove EXCEPT ![h] = to_remove(jobs)]
    /\ hpc' = [hpc EXCEPT ![h] = "delete"]
    /\ UNCHANGED <<mastervars, regvars, conn, hreq, hpid, hreply, notified, filevars, sockvars, exitvars, durvars, racevars, evvars, serverRunning, framevars>>

\* prune_finished lines 245-246 in handler h: every listed job is deleted.
HPruneDelete(h) ==
    /\ hpc[h] = "delete"
    /\ DeleteListed(jobs, hremove[h]).ok
    /\ jobs' = DeleteListed(jobs, hremove[h]).jobs
    /\ procs' = Release(procs, jobs', hpid)
    /\ hremove' = [hremove EXCEPT ![h] = <<>>]
    /\ hpc' = [hpc EXCEPT ![h] = "create"]
    /\ UNCHANGED <<mastervars, conn, hreq, hpid, hreply, notified, filevars, sockvars, exitvars, durvars, racevars, evvars, serverRunning, framevars>>

\* prune_finished lines 245-246 in handler h: a listed job was deleted by
\* another thread in the meantime, `del` raises KeyError and the request is
\* answered 500.
HPruneKeyError(h) ==
    /\ hpc[h] = "delete"
    /\ ~DeleteListed(jobs, hremove[h]).ok
    /\ jobs' = DeleteListed(jobs, hremove[h]).jobs
    /\ procs' = Release(procs, jobs', hpid)
    /\ hremove' = [hremove EXCEPT ![h] = <<>>]
    /\ hreply' = [hreply EXCEPT ![h] = "500_keyerror"]
    /\ hpc' = [hpc EXCEPT ![h] = "idle"]
    /\ UNCHANGED <<mastervars, conn, hreq, hpid, notified, filevars, sockvars, exitvars, durvars, racevars, evvars, serverRunning, framevars>>

\* process.create lines 208-209: the job_id is registered, ValueError,
\* answer 500.
HCreateExists(h) ==
    /\ hpc[h] = "create"
    /\ AlreadyExists(hreq[h])
    /\ hreply' = [hreply EXCEPT ![h] = "500_exists"]
    /\ hpc' = [hpc EXCEPT ![h] = "idle"]
    /\ UNCHANGED <<mastervars, regvars, conn, hreq, hpid, hremove, notified, filevars, sockvars, exitvars, durvars, racevars, evvars, serverRunning, framevars>>

\* process.create lines 211-212 and Job.start lines 87-96: the job_id is not
\* registered; a Job is built and subprocess.Popen spawns the child.
HCreateSpawn(h) ==
    /\ hpc[h] = "create"
    /\ ~AlreadyExists(hreq[h])
    /\ NewPid # 0
    /\ procs' = [procs EXCEPT ![NewPid] = [job |-> hreq[h], st |-> "running"]]
    /\ hpid' = [hpid EXCEPT ![h] = NewPid]
    /\ hpc' = [hpc EXCEPT ![h] = "register"]
    /\ UNCHANGED <<mastervars, jobs, conn, hreq, hremove, hreply, notified, filevars, sockvars, exitvars, durvars, racevars, evvars, serverRunning, framevars>>

\* process.create lines 211-212 and Job.start lines 109-114: the job_id is
\* not registered but Popen raises; nothing is registered and the request is
\* answered 500.
HCreateSpawnFail(h) ==
    /\ hpc[h] = "create"
    /\ ~AlreadyExists(hreq[h])
    /\ hreply' = [hreply EXCEPT ![h] = "500_spawn"]
    /\ hpc' = [hpc EXCEPT ![h] = "idle"]
    /\ UNCHANGED <<mastervars, regvars, conn, hreq, hpid, hremove, notified, filevars, sockvars, exitvars, durvars, racevars, evvars, serverRunning, framevars>>

\* Job.start line 108, `_jobs[self.id] = self`, then the handler answers
\* status "started".
HRegister(h) ==
    /\ hpc[h] = "register"
    /\ jobs' = Put(jobs, hreq[h], hpid[h])
    /\ hpid' = [hpid EXCEPT ![h] = 0]
    /\ procs' = Release(procs, jobs', hpid')
    /\ hreply' = [hreply EXCEPT ![h] = "started"]
    /\ hpc' = [hpc EXCEPT ![h] = "idle"]
    /\ UNCHANGED <<mastervars, conn, hreq, hremove, notified, filevars, sockvars, exitvars, durvars, racevars, evvars, serverRunning, framevars>>

WorkerNext ==
    \/ \E h \in Handlers : Accept(h)
    \/ \E h \in Handlers : Close(h)
    \/ \E h \in Handlers, id \in Packages : RecvExecute(h, id)
    \/ \E h \in Handlers : HPruneSelect(h)
    \/ \E h \in Handlers : HPruneDelete(h)
    \/ \E h \in Handlers : HPruneKeyError(h)
    \/ \E h \in Handlers : HCreateExists(h)
    \/ \E h \in Handlers : HCreateSpawn(h)
    \/ \E h \in Handlers : HCreateSpawnFail(h)
    \/ \E h \in Handlers : HRegister(h)
    \/ \E pid \in Pids : ChildExit(pid)

WorkerSpec == WorkerInit /\ [][WorkerNext]_vars

\* The running children spawned for a job id.
RunningChildren(id) == {pid \in Pids : procs[pid].job = id /\ procs[pid].st = "running"}

\* C2: a create call that finds its job_id in the registry fails with the
\* already-exists error, leaves the registry as it is and spawns no child.
C2_DuplicateCreateFails ==
    [][\A h \in Handlers :
        (hpc[h] = "create" /\ hpc'[h] # "create" /\ InRegistry(jobs, hreq[h]))
        => /\ hreply'[h] = "500_exists"
           /\ hpc'[h] = "idle"
           /\ jobs' = jobs
           /\ procs' = procs]_vars

\* C2 witness: a request for a registered, still running job was answered
\* with the already-exists error, and the job still has its one child.
C2_Witness ==
    \E h \in Handlers :
        /\ hpc[h] = "idle" /\ hreply[h] = "500_exists"
        /\ InRegistry(jobs, hreq[h])
        /\ RunningChildren(hreq[h]) = {get(jobs, hreq[h])}

\* C3 (as claimed): execute_command requests for one job_id, however they
\* interleave, leave at most one running child spawned for that job_id.
C3_AtMostOneChildPerJob ==
    \A id \in Packages : Cardinality(RunningChildren(id)) <= 1

\* C4 (as claimed): a job leaves the registry only after its job_finished
\* notification was delivered to a connected client.
C4_PrunedOnlyAfterNotification ==
    [][\A id \in Packages :
        (InRegistry(jobs, id) /\ ~InRegistry(jobs', id))
        => (id \in notified /\ \E h \in Handlers : conn[h])]_vars

\* Handler h leaves prune_finished in this step, by its return or by an
\* exception.
PruneEnds(h) == hpc[h] = "delete" /\ hpc'[h] # "delete"

\* C27 (as claimed): once a job has stopped and prune_finished has run, its
\* job_id is no longer in the registry, and an execute_command for a job_id
\* that is not registered when its prune_finished ends goes on to create,
\* which does not refuse an unregistered job_id as existing.
C27_PrunedIdReusable ==
    [][\A h \in Handlers :
        /\ PruneEnds(h) =>
              \A k \in 1..Len(hremove[h]) : ~InRegistry(jobs', hremove[h][k])
        /\ PruneEnds(h) /\ ~InRegistry(jobs', hreq[h]) => hpc'[h] = "create"
        /\ (hpc[h] = "create" /\ hpc'[h] # "create" /\ ~InRegistry(jobs, hreq[h]))
              => hreply'[h] # "500_exists"]_vars

\* C33 (as claimed): the deleting loop of prune_finished, in whichever
\* handler thread and after whatever other threads did since the sweep
\* selected its jobs, removes no job whose process is running.
C33_PruneKeepsRunningJobs ==
    [][\A h \in Handlers, id \in Packages :
        (PruneEnds(h) /\ InRegistry(jobs, id) /\ is_running(get(jobs, id)))
        => (InRegistry(jobs', id) /\ get(jobs', id) = get(jobs, id))]_vars

\* ============================================ config.load (LoadSpec)

\* The entry a stat file written under an earlier config carries for p: its
\* declarative fields differ from the present config's.
OldEntry(p) ==
    ConfigEntry(IF ConfiguredTypes[p] = "rsync" THEN "ftpsync" ELSE "rsync", PUSH)

\* Status objects found in a stat file.
StatObjects ==
    {StatusObject("ACTIVE", 0, StartTime), StatusObject("ERROR", 1, 0)}

\* The entries a stat file can hold for p: declarative fields of the present
\* or of an earlier config, with a status object or without the "status" key.
StatEntries(p) ==
    LET decls == {ConfigEntry(ConfiguredTypes[p], ConfiguredRates[p]), OldEntry(p)}
    IN  decls \cup {WithStatus(d, so) : d \in decls, so \in StatObjects}

\* The config files: any subset of the packages, each with its entry.
Configs ==
    {[p \in S |-> ConfigEntry(ConfiguredTypes[p], ConfiguredRates[p])] : S \in SUBSET Packages}

\* The "packages" objects of a stat file: entries for any subset of the pkgids.
StatPackages ==
    UNION {{f \in [S -> UNION {StatEntries(p) : p \in S}] : \A p \in S : f[p] \in StatEntries(p)}
           : S \in SUBSET Packages}

\* Before daemon() calls config.load: nothing is loaded; the config file is
\* any of Configs, the stat file is missing or holds any of StatPackages, and
\* the web status file is missing or holds a snapshot of an earlier run.
LoadInit ==
    /\ status = [p \in Packages |-> "UNKNOWN"]
    /\ errorcount = [p \in Packages |-> 0]
    /\ lastsync = [p \in Packages |-> 0]
    /\ timestamp = [p \in Packages |-> -1]
    /\ lastPosted = <<>>
    /\ raised = FALSE
    /\ disabled = [p \in Packages |-> FALSE]
    /\ syncrate = [p \in Packages |-> 0]
    /\ synctype = ConfiguredTypes
    /\ debug = FALSE
    /\ now = StartTime
    /\ workerUp = TRUE
    /\ InitLoop
    /\ InitWorker
    /\ config_packages \in Configs
    /\ config_settings = SettingKeys
    /\ stat_file \in {[exists |-> FALSE, mirrorname |-> "", packages |-> None]}
                     \cup {[exists |-> TRUE, mirrorname |-> OldMirrorName, packages |-> f]
                           : f \in StatPackages}
    /\ status_file \in {[exists |-> FALSE, packages |-> None],
                        [exists |-> TRUE, packages |-> [p \in Packages |-> "UNKNOWN"]]}
    /\ stat_dict = None
    /\ keys = {}
    /\ InitSock
    /\ masterUp = FALSE
    /\ workerState = "running"
    /\ InitDur
    /\ InitRace
    /\ InitEvent
    /\ InitServer
    /\ InitFrame

\* Package.from_dict lines 82-92 on a loader entry: KeyError for a missing
\* key, ValueError for a synctype that is no sync method.
PackageError(entry) ==
    IF "synctype" \notin DOMAIN entry THEN "KeyError"
    ELSE IF entry.synctype \notin methods THEN "ValueError"
    ELSE IF "syncrate" \notin DOMAIN entry THEN "KeyError"
    ELSE "none"

\* Where a load of the config file (settings keys st, packages cfg) over the
\* stat packages pkgs raises: line 40 (statfile or statusfile setting
\* missing), line 89 (Config.load_from_dict misses a key), line 90 (a
\* Package.from_dict raises), or nowhere.
LoadError(st, cfg, pkgs) ==
    IF "statfile" \notin st \/ "statusfile" \notin st THEN "line40"
    ELSE IF "logfolder" \notin st THEN "line89"
    ELSE IF \E id \in DOMAIN cfg :
               PackageError(final_stat_packages(cfg, pkgs)[id]) # "none" THEN "line90"
    ELSE "none"

\* config.load (also reached through reload and through a restart of the
\* daemon): the stat file is merged with the config and written, and the
\* package table is rebuilt from what was written. A package outside the
\* table keeps the model's default values.
Load ==
    LET final == final_stat_packages(config_packages, ReadStat(stat_file))
        In(p) == p \in DOMAIN final
    IN
    /\ LoadError(config_settings, config_packages, ReadStat(stat_file)) = "none"
    /\ stat_dict' = stat_file
    /\ stat_file' = WrittenStat(final)
    /\ keys' = DOMAIN final
    /\ status' = [p \in Packages |-> IF In(p) THEN LoadedStatus(final[p]) ELSE "UNKNOWN"]
    /\ errorcount' = [p \in Packages |-> IF In(p) THEN LoadedErrorCount(final[p]) ELSE 0]
    /\ lastsync' = [p \in Packages |-> IF In(p) THEN LoadedLastSync(final[p]) ELSE 0]
    /\ synctype' = [p \in Packages |-> IF In(p) THEN final[p].synctype ELSE ConfiguredTypes[p]]
    /\ syncrate' = [p \in Packages |->
                       IF In(p) THEN iso_duration_parser(final[p].syncrate).value ELSE 0]
    /\ timestamp' = [p \in Packages |-> -1]
    /\ lastPosted' = <<>>
    /\ raised' = FALSE
    /\ disabled' = [p \in Packages |-> FALSE]
    /\ UNCHANGED <<debug, now, loopvars, workerUp, regvars, hvars, notified,
                   config_packages, config_settings, status_file, sockvars, exitvars, durvars, racevars, evvars, serverRunning, framevars>>

\* A status transition of a loaded package.
LoadedSetStatus(p, target) ==
    /\ p \in keys
    /\ CallSetStatus(p, target)

LoadNext ==
    \/ Load
    \/ \E p \in Packages, target \in status_list : LoadedSetStatus(p, target)

LoadSpec == LoadInit /\ [][LoadNext]_vars

\* The pkgids the latest load found in the stat file, and those of the config.
StatIds == DOMAIN ReadStat(stat_dict)
ConfigIds == DOMAIN config_packages
\* Whether config.load has run.
Loaded == Truthy(stat_dict)

\* C12: after load, a pkgid that was in the stat file but is not in the config
\* is neither in the stat file nor in the in-memory package table.
C12_OrphansDropped ==
    Loaded =>
        \A id \in StatIds \ ConfigIds :
            id \notin DOMAIN stat_file.packages /\ id \notin keys

\* C12 witness: a load met a stat file with an orphan next to a package of the
\* config, and wrote and loaded the config's package only.
C12_Witness ==
    /\ Loaded
    /\ StatIds = Packages /\ ConfigIds = {"p1"}
    /\ DOMAIN stat_file.packages = {"p1"} /\ keys = {"p1"}

\* C13: after load, a pkgid of the config that the stat file did not hold (or
\* when there was no stat file) has status UNKNOWN and errorcount 0 in the
\* written stat file and in memory.
C13_NewcomersSeeded ==
    [][Load =>
        \A id \in ConfigIds \ DOMAIN ReadStat(stat_file) :
            /\ id \in DOMAIN stat_file'.packages
            /\ stat_file'.packages[id].status.status = "UNKNOWN"
            /\ stat_file'.packages[id].status.statusinfo.errorcount = 0
            /\ id \in keys'
            /\ status'[id] = "UNKNOWN"
            /\ errorcount'[id] = 0]_vars

\* C13 witness: a load met a stat file that held p2 but not p1; p1 is seeded
\* in the file and in memory while p2 carries what the file held.
C13_Witness ==
    /\ Loaded /\ stat_dict.exists
    /\ StatIds = {"p2"} /\ ConfigIds = Packages
    /\ stat_file.packages["p1"].status = SeededStatus
    /\ keys = Packages
    /\ status["p1"] = "UNKNOWN" /\ errorcount["p1"] = 0
    /\ status["p2"] = "ERROR" /\ errorcount["p2"] = 1

\* The pkgids for which the stat file holds a status object.
WithHeldStatus(pkgs) == {id \in DOMAIN pkgs : Truthy(Get(pkgs[id], "status", None))}

\* C14: after load, a pkgid of the config for which the stat file held a
\* status carries that status and statusinfo (errorcount, lastsync) in the
\* written stat file and in memory, and its declarative fields are those of
\* the config entry.
C14_KnownPreserved ==
    [][Load =>
        \A id \in ConfigIds \cap WithHeldStatus(ReadStat(stat_file)) :
            LET held == stat_file.packages[id].status
                new == stat_file'.packages[id] IN
            /\ new.status = held
            /\ new.synctype = config_packages[id].synctype
            /\ new.syncrate = config_packages[id].syncrate
            /\ id \in keys'
            /\ status'[id] = held.status
            /\ errorcount'[id] = held.statusinfo.errorcount
            /\ lastsync'[id] = held.statusinfo.lastsync
            /\ synctype'[id] = config_packages[id].synctype
            /\ syncrate'[id] = iso_duration_parser(config_packages[id].syncrate).value]_vars

\* C14 witness: the stat file held p2 as ACTIVE under the declarative fields of
\* an earlier config; after the load p2 is ACTIVE with the lastsync of the
\* file and the synctype and syncrate of the present config.
C14_Witness ==
    /\ Loaded /\ "p2" \in StatIds \cap ConfigIds
    /\ stat_dict.packages["p2"] = WithStatus(OldEntry("p2"), StatusObject("ACTIVE", 0, StartTime))
    /\ stat_file.packages["p2"].status = StatusObject("ACTIVE", 0, StartTime)
    /\ stat_file.packages["p2"].synctype = ConfiguredTypes["p2"]
    /\ status["p2"] = "ACTIVE" /\ lastsync["p2"] = StartTime /\ errorcount["p2"] = 0
    /\ synctype["p2"] = ConfiguredTypes["p2"] /\ syncrate["p2"] = 2

\* C15: a load of the same config on the stat file a load wrote writes an
\* equal stat file.
C15_LoadIdempotent ==
    [][(Loaded /\ Load) => stat_file' = stat_file]_vars

\* C15 witness: a second load has read the file the first one wrote (a merge
\* of a seeded and a preserved package) and left it as it was.
C15_Witness ==
    /\ Loaded /\ stat_dict = stat_file
    /\ stat_dict.mirrorname = MirrorName
    /\ ConfigIds = Packages
    /\ stat_file.packages["p1"].status = SeededStatus
    /\ stat_file.packages["p2"].status = StatusObject("ERROR", 1, 0)

\* C16 (as claimed): a load that follows status transitions (a restart or a
\* reload under the same config) leaves every loaded package with the status,
\* errorcount and lastsync it had before.
C16_StatusSurvivesRestart ==
    [][(Loaded /\ Load) =>
        \A p \in keys :
            /\ status'[p] = status[p]
            /\ errorcount'[p] = errorcount[p]
            /\ lastsync'[p] = lastsync[p]]_vars

\* C17 (as claimed): once a status transition of a package has settled, the
\* web status file records the package's in-memory status.
C17_SnapshotFollowsStatus ==
    [][\A p \in keys :
        (status'[p] # status[p] /\ lastPosted' # <<>>)
        => /\ status_file'.exists
           /\ Get(status_file'.packages, p, "") = status'[p]]_vars

\* ============================================ socket protocol (SockSpec)
\* One client connection to the WorkerServer: handshake, requests and their
\* responses, children exiting and job_finished notifications.

\* The handshake infos a client can present: BaseClient's, or those of a
\* client that overrides _get_handshake_info or is another program.
ClientInfos ==
    {HandshakeInfo(a, v) : a \in {APP_NAME, "other.py"},
                           v \in {PROTOCOL_VERSION, PROTOCOL_VERSION + 1}}

\* The commands a client sends: two that WorkerServer registers and one
\* (the rsync backend's) that it does not.
SentCommands == {"ping", "execute_command", "start_sync", "stop_command"}

\* job_id=None in a request.
NoJobId == "none"

\* _perform_handshake line 136-140 and connect line 339-343.
HandshakeFrame(info) == [status |-> 200, message |-> "Handshake", data |-> [info |-> info]]

\* _perform_handshake lines 153-157, 161-165 and 169-173.
ConfirmFrame(st) ==
    [status |-> st,
     message |-> CASE st = 403 -> "Invalid application"
                   [] st = 400 -> "Protocol version mismatch"
                   [] OTHER -> "OK",
     data |-> None]

\* send_command line 375. `seq` is not on the wire: it numbers the calls of
\* send_command so that a response can be told from another request's.
RequestFrame(cmd, id, n) == [command |-> cmd, job_id |-> id, seq |-> n]

\* _handle_connection lines 195-213. `re` is not on the wire: it is the seq
\* of the request the frame answers.
ResponseFrame(st, data, n) == [status |-> st, data |-> data, re |-> n]

\* send_finished_notification lines 34-40.
NotificationFrame(id) == [type |-> "notification", event |-> "job_finished", job_id |-> id]

\* _perform_handshake lines 152-173: the status of the confirmation the
\* server sends for a client's handshake info.
ValidateClientAppOnly(info) ==
    IF info.app_name # APP_NAME THEN 403 ELSE 200
ValidateClient(info) ==
    IF info.app_name # APP_NAME THEN 403
    ELSE IF info.protocol_version # PROTOCOL_VERSION THEN 400
    ELSE 200

\* connect lines 322-336: the client accepts the server's handshake frame.
ServerAccepted(frame) ==
    /\ Get(frame, "status", 0) = 200
    /\ Truthy(Get(Get(frame, "data", None), "info", None))
    /\ frame.data.info.app_name = APP_NAME
    /\ frame.data.info.protocol_version = PROTOCOL_VERSION

SockInit ==
    /\ status = [p \in Packages |-> "UNKNOWN"]
    /\ errorcount = [p \in Packages |-> 0]
    /\ timestamp = [p \in Packages |-> -1]
    /\ lastPosted = <<>>
    /\ raised = FALSE
    /\ disabled = [p \in Packages |-> FALSE]
    /\ lastsync = [p \in Packages |-> 0]
    /\ syncrate = [p \in Packages |-> 0]
    /\ synctype = ConfiguredTypes
    /\ debug = FALSE
    /\ now = StartTime
    /\ workerUp = TRUE
    /\ InitLoop
    /\ InitWorker
    /\ InitFiles
    /\ cinfo \in ClientInfos
    /\ cpc = "new"
    /\ spc = "listen"
    /\ s2c = <<>>
    /\ c2s = <<>>
    /\ confirm = 0
    /\ cseq = 0
    /\ clog = <<>>
    /\ InitExit
    /\ InitDur
    /\ InitRace
    /\ InitEvent
    /\ InitServer
    /\ InitFrame

nonsock == <<pkgvars, cfgvars, now, loopvars, workerUp, hvars, filevars, exitvars, durvars, racevars, evvars, serverRunning, framevars>>

\* connect lines 313-318: the socket file exists (start has bound it, stop
\* has not removed it) and the client's socket connects to the listening
\* server.
ClientConnect ==
    /\ workerUp /\ cpc = "new"
    /\ serverRunning
    /\ cpc' = "hs_server"
    /\ UNCHANGED <<nonsock, regvars, notified, cinfo, spc, s2c, c2s, confirm, cseq, clog>>

\* _accept_loop lines 244-247 and _perform_handshake lines 136-140: the
\* server accepts the connection and sends its handshake frame.
ServerAccept ==
    /\ spc = "listen" /\ cpc # "new"
    /\ s2c' = Append(s2c, HandshakeFrame(ServerInfo))
    /\ spc' = "hs_client"
    /\ UNCHANGED <<nonsock, regvars, notified, cinfo, cpc, c2s, confirm, cseq, clog>>

\* connect lines 321-343: the client receives the server's frame, validates
\* it and sends its own; a frame it does not accept makes connect raise.
ClientHandshake ==
    /\ cpc = "hs_server" /\ s2c # <<>>
    /\ s2c' = Tail(s2c)
    /\ IF ServerAccepted(Head(s2c))
       THEN cpc' = "hs_confirm" /\ c2s' = Append(c2s, HandshakeFrame(cinfo))
       ELSE cpc' = "failed" /\ c2s' = c2s
    /\ UNCHANGED <<nonsock, regvars, notified, cinfo, spc, confirm, cseq, clog>>

\* _handle_connection line 183: the handler thread evaluates `while
\* self.running` before it waits for a request; with the flag cleared it
\* leaves the loop and closes the connection (line 217).
LoopHead(next) == IF next = "serving" /\ ~serverRunning THEN "closed" ELSE next

\* _perform_handshake line 145-148: the frame carries handshake info.
HasInfo(frame) == Truthy(Get(Get(frame, "data", None), "info", None))

AfterHandshakeServeRejected(st) == IF st = 0 THEN "closed" ELSE "serving"
\* _accept_loop lines 247-258 for the confirmation status _perform_handshake
\* sent (0: it raised and sent none): a handler thread is started only when
\* _perform_handshake returned the client's info.
AfterHandshake(st) == IF st = 200 THEN "serving" ELSE "closed"

\* _perform_handshake lines 143-174 and _accept_loop lines 248-258: the
\* server receives the client's frame and sends the confirmation; on 200 a
\* handler thread serves the connection, otherwise the connection is closed.
ServerConfirm ==
    /\ spc = "hs_client" /\ c2s # <<>>
    /\ HasInfo(Head(c2s))
    /\ c2s' = Tail(c2s)
    /\ LET st == ValidateClient(Head(c2s).data.info)
       IN  /\ s2c' = Append(s2c, ConfirmFrame(st))
           /\ spc' = LoopHead(AfterHandshake(st))
    /\ UNCHANGED <<nonsock, regvars, notified, cinfo, cpc, confirm, cseq, clog>>

\* connect lines 346-357: the client receives the confirmation; connect
\* returns on 200 and raises ConnectionError otherwise.
ClientConfirm ==
    /\ cpc = "hs_confirm" /\ s2c # <<>>
    /\ s2c' = Tail(s2c)
    /\ confirm' = Get(Head(s2c), "status", 0)
    /\ cpc' = IF confirm' = 200 THEN "connected" ELSE "failed"
    /\ UNCHANGED <<nonsock, regvars, notified, cinfo, spc, c2s, cseq, clog>>

\* Both sides exchange their handshake frames within HANDSHAKE_TIMEOUT, so
\* no recv of the handshake times out.

\* send_command lines 372-375: a connected client sends a request.
SendCommand(cmd, id) ==
    /\ cpc = "connected" /\ cseq < MaxRequests
    /\ cseq' = cseq + 1
    /\ c2s' = Append(c2s, RequestFrame(cmd, id, cseq'))
    /\ cpc' = "await"
    /\ clog' = Append(clog, [seq |-> cseq', command |-> cmd, job_id |-> id,
                             result |-> "pending", frame |-> None,
                             after_stop |-> ~serverRunning])
    /\ UNCHANGED <<nonsock, regvars, notified, cinfo, spc, s2c, confirm>>

\* _handle_connection lines 183 and 215: after a response of the given status
\* is sent the handler thread goes round its loop again.
AfterResponseBreakOnError(st) == IF st = 200 THEN "serving" ELSE "closed"
AfterResponse(st) == "serving"

\* The handler thread has read the request at the head of c2s.
Serving(cmd) == spc = "serving" /\ c2s # <<>> /\ Head(c2s).command = cmd

\* _handle_connection line 215: the response to the request just read is
\* sent.
Respond(st, data) ==
    /\ s2c' = Append(s2c, ResponseFrame(st, data, Head(c2s).seq))
    /\ c2s' = Tail(c2s)
    /\ spc' = LoopHead(AfterResponse(st))
    /\ UNCHANGED <<nonsock, cinfo, cpc, confirm, cseq, clog>>

\* _handle_connection lines 192-199 with WorkerServer._handle_ping.
HandlePing ==
    /\ Serving("ping")
    /\ Respond(200, [message |-> "pong"])
    /\ UNCHANGED <<regvars, notified>>

\* _handle_connection lines 208-213: the command has no handler.
HandleNotFound ==
    /\ spc = "serving" /\ c2s # <<>>
    /\ Head(c2s).command \notin WorkerCommands
    /\ Respond(404, None)
    /\ UNCHANGED <<regvars, notified>>

\* _handle_execute_command: prune_finished, then process.create finds the
\* job_id registered and raises ValueError; _handle_connection lines 200-207
\* answer 500 with the traceback.
HandleExecuteExists ==
    /\ Serving("execute_command")
    /\ InRegistry(prune_finished(jobs), Head(c2s).job_id)
    /\ jobs' = prune_finished(jobs)
    /\ procs' = Release(procs, jobs', hpid)
    /\ Respond(500, [traceback |-> "ValueError"])
    /\ UNCHANGED notified

\* _handle_execute_command: prune_finished, process.create spawns the child
\* and registers the job, whose completion is yet to be announced; the answer
\* is 200 with status "started".
HandleExecuteStarted ==
    /\ Serving("execute_command")
    /\ ~InRegistry(prune_finished(jobs), Head(c2s).job_id)
    /\ NewPid # 0
    /\ jobs' = Put(prune_finished(jobs), Head(c2s).job_id, NewPid)
    /\ procs' = Release([procs EXCEPT ![NewPid] = [job |-> Head(c2s).job_id, st |-> "running"]],
                        jobs', hpid)
    /\ Respond(200, [job_id |-> Head(c2s).job_id, status |-> "started"])
    /\ notified' = notified \ {Head(c2s).job_id}

\* _handle_execute_command: prune_finished, then Popen raises in Job.start;
\* nothing is registered and the answer is 500 with the traceback.
HandleExecuteSpawnFail ==
    /\ Serving("execute_command")
    /\ ~InRegistry(prune_finished(jobs), Head(c2s).job_id)
    /\ jobs' = StartFailed(prune_finished(jobs), Head(c2s).job_id)
    /\ procs' = Release(procs, jobs', hpid)
    /\ Respond(500, [traceback |-> "OSError"])
    /\ UNCHANGED notified

\* Job.stop lines 180-185 on a running child: how the call ends. The child
\* exits on terminate within the timeout and wait reaps it; or wait times
\* out and kill is sent, which stop does not wait for: the child is a zombie
\* by the time stop returns, or has not yet died.
StopEnds == {"terminated", "killed", "kill_pending"}

\* Job.is_running when Job.stop returns.
RunningAfterStop(how) == how = "kill_pending"

\* The children Job.stop signals for a stop_command with job_id id: lines
\* 97-100 the registered job's, lines 105-109 every registered job's, in
\* each case if it is running.
StopTargets(id) ==
    {pid \in Pids : /\ is_running(pid)
                    /\ \E i \in 1..Len(jobs) :
                          jobs[i].pid = pid /\ (id = NoJobId \/ jobs[i].id = id)}

\* _handle_stop_command lines 106-110: the ids appended to `stopped`.
stopped ==
    LET running == SelectSeq(jobs, LAMBDA e : is_running(e.pid))
    IN  [i \in 1..Len(running) |-> running[i].id]

\* _handle_stop_command lines 97-111: what the handler returns.
StopAnswer(id) ==
    IF id = NoJobId THEN [status |-> "all_stopped", stopped_jobs |-> stopped]
    ELSE IF InRegistry(jobs, id) THEN [job_id |-> id, status |-> "stopped"]
    ELSE [job_id |-> id, status |-> "not_found"]

\* _handle_connection lines 192-199 with WorkerServer._handle_stop_command:
\* Job.stop is called on every target and the answer is sent.
HandleStop ==
    /\ Serving("stop_command")
    /\ \E how \in [StopTargets(Head(c2s).job_id) -> StopEnds] :
          procs' = Release([pid \in Pids |->
                               IF pid \in DOMAIN how /\ ~RunningAfterStop(how[pid])
                               THEN [procs[pid] EXCEPT !.st = "exited"]
                               ELSE procs[pid]],
                           jobs, hpid)
    /\ Respond(200, StopAnswer(Head(c2s).job_id))
    /\ UNCHANGED <<jobs, notified>>

\* send_command lines 377-387: the next frame on the socket is taken as the
\* response; the call returns its data if its status is 200 and raises
\* otherwise.
SendCommandResult(frame) ==
    IF Get(frame, "status", 0) = 200 THEN "return" ELSE "raise"

ReceiveResponse ==
    /\ cpc = "await" /\ s2c # <<>>
    /\ s2c' = Tail(s2c)
    /\ clog' = [clog EXCEPT ![Len(clog)] =
                    [@ EXCEPT !.result = SendCommandResult(Head(s2c)), !.frame = Head(s2c)]]
    /\ cpc' = "connected"
    /\ UNCHANGED <<nonsock, regvars, notified, cinfo, spc, c2s, confirm, cseq>>

\* The worker's reaping step as the specification describes it: a registered
\* job whose child has exited and whose completion has not been announced.
JobFinished(id) ==
    /\ InRegistry(jobs, id)
    /\ \E i \in 1..Len(jobs) : jobs[i].id = id /\ ~is_running(jobs[i].pid)
    /\ id \notin notified

\* BaseServer.client_count, used by send_finished_notification line 31: the
\* number of connections a handler thread is serving.
client_count == IF spc = "serving" THEN 1 ELSE 0

\* BaseServer.broadcast, used by send_finished_notification line 34: the
\* frame is sent on every served connection.
broadcast(frame) == s2c' = Append(s2c, frame)

\* WorkerServer.send_finished_notification for a finished job; with no
\* client connected it raises ConnectionError and nothing is sent.
send_finished_notification(id) ==
    /\ JobFinished(id)
    /\ client_count # 0
    /\ broadcast(NotificationFrame(id))
    /\ notified' = notified \cup {id}
    /\ UNCHANGED <<nonsock, regvars, cinfo, cpc, spc, c2s, confirm, cseq, clog>>

\* A child process terminates by itself while the connection is served.
SockChildExit(pid) == spc = "serving" /\ ChildExit(pid)

SockNext ==
    \/ ClientConnect
    \/ ServerAccept
    \/ ClientHandshake
    \/ ServerConfirm
    \/ ClientConfirm
    \/ \E cmd \in SentCommands, id \in Packages : SendCommand(cmd, id)
    \/ SendCommand("stop_command", NoJobId)
    \/ HandlePing
    \/ HandleStop
    \/ HandleNotFound
    \/ HandleExecuteExists
    \/ HandleExecuteStarted
    \/ HandleExecuteSpawnFail
    \/ ReceiveResponse
    \/ \E pid \in Pids : SockChildExit(pid)
    \/ \E id \in Packages : send_finished_notification(id)

SockSpec == SockInit /\ [][SockNext]_vars

\* ---------------------------------------------------------------- claims
Matching == cinfo.app_name = APP_NAME /\ cinfo.protocol_version = PROTOCOL_VERSION

\* The status the server owes the client: 403 for a wrong app_name (checked
\* first), 400 for a wrong protocol_version, 200 for a match.
Owed ==
    IF cinfo.app_name # APP_NAME THEN 403
    ELSE IF cinfo.protocol_version # PROTOCOL_VERSION THEN 400 ELSE 200

\* C18: the handshake runs server frame, client frame, confirmation. A client
\* whose app_name and protocol_version match is confirmed with 200, its
\* connect never fails and it is the only kind of client that gets connected.
\* A client with a wrong app_name is answered 403 and one with the right
\* app_name and a wrong protocol_version 400; the server has sent that answer
\* when it closes the connection, and the client's connect fails on it.
C18_Handshake ==
    /\ cpc = "hs_server" => \A i \in 1..Len(s2c) : s2c[i] = HandshakeFrame(ServerInfo)
    /\ cpc = "hs_server" => spc \in {"listen", "hs_client"}
    /\ cpc = "hs_confirm" => \A i \in 1..Len(s2c) : s2c[i] = ConfirmFrame(Owed)
    /\ confirm \in {0, Owed}
    /\ Matching => cpc # "failed" /\ spc # "closed"
    /\ cpc \in {"connected", "await"} => Matching /\ confirm = 200 /\ spc = "serving"
    /\ ~Matching /\ spc = "closed" =>
          \/ cpc = "hs_confirm" /\ s2c = <<ConfirmFrame(Owed)>>
          \/ cpc = "failed" /\ confirm = Owed
    /\ ~Matching /\ confirm # 0 => cpc = "failed" /\ spc = "closed"

\* A client with the right app_name and a wrong protocol_version has been
\* answered 400 and its connect has failed.
C18_Witness ==
    /\ cinfo = HandshakeInfo(APP_NAME, PROTOCOL_VERSION + 1)
    /\ confirm = 400 /\ cpc = "failed" /\ spc = "closed"

\* The handler thread takes the request at the head of c2s in this step.
HandlesRequest == spc = "serving" /\ c2s # <<>> /\ c2s' = Tail(c2s)

\* _handle_execute_command raises for the request: process.create finds the
\* job_id registered after the prune.
HandlerRaisesExists(req) ==
    /\ req.command = "execute_command"
    /\ InRegistry(prune_finished(jobs), req.job_id)

\* C19: every request the handler thread takes is answered with exactly one
\* frame for that request: status 404 if the command is not registered,
\* status 500 carrying data.traceback if the handler raises, status 200
\* otherwise; whatever the status, the connection stays served, so later
\* requests on it are answered in the same way.
C19_ErrorsKeepConnection ==
    [][HandlesRequest =>
        LET req == Head(c2s)
            resp == s2c'[Len(s2c')]
        IN  /\ s2c' = Append(s2c, resp)
            /\ resp.re = req.seq
            /\ resp.status \in {200, 404, 500}
            /\ resp.status = 404 <=> req.command \notin WorkerCommands
            /\ HandlerRaisesExists(req) => resp.status = 500
            /\ resp.status = 500 => "traceback" \in DOMAIN resp.data
            /\ req.command = "ping" => resp.status = 200
            /\ spc' = "serving"]_vars

\* On one connection send_command got a 404, then a 500 with a traceback,
\* and its next request was answered 200.
C19_Witness ==
    /\ Len(clog) = 3
    /\ Get(clog[1].frame, "status", 0) = 404
    /\ Get(clog[2].frame, "status", 0) = 500
    /\ "traceback" \in DOMAIN clog[2].frame.data
    /\ Get(clog[3].frame, "status", 0) = 200
    /\ clog[3].frame.re = 3

\* send_command returns or raises in this step.
SendCommandEnds == cpc = "await" /\ cpc' = "connected"

\* C20: the frame send_command takes as the response is never a notification:
\* it is the response to the request that call sent.
C20_NotificationNeverInResponsePosition ==
    [][SendCommandEnds =>
        LET call == clog'[Len(clog')]
        IN  /\ Get(call.frame, "type", "response") # "notification"
            /\ Get(call.frame, "re", 0) = call.seq]_vars

\* The handler thread answers a stop_command in this step.
StopHandled == Serving("stop_command") /\ c2s' = Tail(c2s)

\* The registered jobs that are running.
RunningJobs == {jobs[i].id : i \in {k \in 1..Len(jobs) : is_running(jobs[k].pid)}}

\* C28 (as claimed): stop_command with the id of a registered job answers
\* "stopped" and the job is not running when the answer is sent; with an
\* unknown id it answers "not_found" and changes no job; with no id it
\* answers with exactly the ids of the jobs that were running, and none of
\* them is running when the answer is sent.
C28_StopCommand ==
    [][StopHandled =>
        LET id == Head(c2s).job_id
            data == s2c'[Len(s2c')].data
        IN  IF id = NoJobId
            THEN /\ data.status = "all_stopped"
                 /\ {data.stopped_jobs[k] : k \in 1..Len(data.stopped_jobs)} = RunningJobs
                 /\ \A pid \in StopTargets(id) : procs'[pid].st # "running"
            ELSE IF InRegistry(jobs, id)
            THEN /\ data = [job_id |-> id, status |-> "stopped"]
                 /\ procs'[get(jobs, id)].st # "running"
            ELSE /\ data = [job_id |-> id, status |-> "not_found"]
                 /\ procs' = procs /\ jobs' = jobs]_vars

\* The k-th send_command was an execute_command for id that raised on a 500
\* carrying the spawn error.
SpawnErrorSurfaced(k, id) ==
    /\ clog[k].command = "execute_command" /\ clog[k].job_id = id
    /\ clog[k].result = "raise"
    /\ Get(clog[k].frame, "status", 0) = 500
    /\ Get(clog[k].frame, "data", None) = [traceback |-> "OSError"]

\* C32: when the child cannot be spawned, the execute_command request itself
\* is answered with the error, no job is registered under the job_id and no
\* child runs for it; and create refuses a job_id as existing only when a
\* job with a spawned child is registered under it, never after a failed
\* spawn alone.
C32_SpawnFailureLeavesRegistry ==
    [][/\ HandleExecuteSpawnFail =>
            /\ s2c'[Len(s2c')] = ResponseFrame(500, [traceback |-> "OSError"], Head(c2s).seq)
            /\ jobs' = prune_finished(jobs)
            /\ ~InRegistry(jobs', Head(c2s).job_id)
            /\ \A pid \in Pids : procs'[pid].st = "running" => procs[pid] = procs'[pid]
       /\ HandleExecuteExists =>
            /\ InRegistry(jobs, Head(c2s).job_id)
            /\ procs[get(jobs, Head(c2s).job_id)] =
                   [job |-> Head(c2s).job_id, st |-> "running"]]_vars

\* An execute_command for a job_id raised the spawn error, and a later one
\* for the same job_id started the job, which is registered and running.
C32_Witness ==
    \E k1, k2 \in 1..Len(clog), id \in Packages :
        /\ k1 < k2
        /\ SpawnErrorSurfaced(k1, id)
        /\ clog[k2].command = "execute_command" /\ clog[k2].job_id = id
        /\ clog[k2].result = "return"
        /\ InRegistry(jobs, id) /\ is_running(get(jobs, id))

\* ------------------------------------------- handshakes that fail (HsSpec)
\* The handshake of SockSpec with clients that do not keep to connect(): they
\* send a request in place of the handshake frame, send one right behind
\* it, or send nothing.

\* The request such a client sends.
EarlyRequest(id) == RequestFrame("execute_command", id, 0)

\* The client answers the server's frame with a request.
ClientMalformedHandshake(id) ==
    /\ cpc = "hs_server" /\ s2c # <<>>
    /\ s2c' = Tail(s2c)
    /\ c2s' = Append(c2s, EarlyRequest(id))
    /\ cpc' = "hs_confirm"
    /\ UNCHANGED <<nonsock, regvars, notified, cinfo, spc, confirm, cseq, clog>>

\* The client sends a request behind its handshake frame without waiting
\* for the confirmation.
ClientPipelinedRequest(id) ==
    /\ cpc = "hs_confirm" /\ spc = "hs_client"
    /\ Len(c2s) = 1 /\ HasInfo(c2s[1])
    /\ c2s' = Append(c2s, EarlyRequest(id))
    /\ UNCHANGED <<nonsock, regvars, notified, cinfo, cpc, spc, s2c, confirm, cseq, clog>>

\* _perform_handshake lines 143-148 and 176-178: the frame received has no
\* handshake info, ValueError is raised and caught, None is returned.
ServerHandshakeRaises ==
    /\ spc = "hs_client" /\ c2s # <<>>
    /\ ~HasInfo(Head(c2s))
    /\ c2s' = Tail(c2s)
    /\ spc' = AfterHandshake(0)
    /\ UNCHANGED <<nonsock, regvars, notified, cinfo, cpc, s2c, confirm, cseq, clog>>

\* _perform_handshake lines 143 and 176-178: nothing arrives within
\* HANDSHAKE_TIMEOUT, the recv raises and None is returned.
ServerHandshakeTimeout ==
    /\ spc = "hs_client" /\ c2s = <<>>
    /\ spc' = AfterHandshake(0)
    /\ UNCHANGED <<nonsock, regvars, notified, cinfo, cpc, s2c, c2s, confirm, cseq, clog>>

\* connect lines 346 and 353-357: the server closed the connection without a
\* confirmation; the recv raises and connect with it.
ClientSeesClose ==
    /\ cpc = "hs_confirm" /\ s2c = <<>> /\ spc = "closed"
    /\ cpc' = "failed"
    /\ UNCHANGED <<nonsock, regvars, notified, cinfo, spc, s2c, c2s, confirm, cseq, clog>>

HsNext ==
    \/ ClientConnect
    \/ ServerAccept
    \/ ClientHandshake
    \/ ServerConfirm
    \/ ClientConfirm
    \/ HandleExecuteStarted
    \/ HandleExecuteSpawnFail
    \/ \E pid \in Pids : SockChildExit(pid)
    \/ \E id \in Packages : ClientMalformedHandshake(id)
    \/ \E id \in Packages : ClientPipelinedRequest(id)
    \/ ServerHandshakeRaises
    \/ ServerHandshakeTimeout
    \/ ClientSeesClose

HsSpec == SockInit /\ [][HsNext]_vars

\* The server reads a request and answers it in this step.
RequestDispatched ==
    /\ c2s # <<>> /\ c2s' = Tail(c2s)
    /\ "command" \in DOMAIN Head(c2s)
    /\ Len(s2c') = Len(s2c) + 1
    /\ "re" \in DOMAIN s2c'[Len(s2c')]

\* The server has sent the 200 confirmation on the connection.
Confirmed == confirm = 200 \/ \E i \in 1..Len(s2c) : s2c[i] = ConfirmFrame(200)

\* C36: a request is dispatched only on a connection whose handshake the
\* server has confirmed with 200, to a client that presented the right
\* app_name and protocol_version; until then no job is created, and a
\* handshake that ends without that confirmation (mismatch, a frame without
\* handshake info, timeout) ends with the connection closed.
C36_NoDispatchBeforeHandshake ==
    [][/\ RequestDispatched => Confirmed /\ Matching
       /\ ~Confirmed' => jobs' = jobs /\ jobs = <<>>
       /\ (spc = "hs_client" /\ spc' # "hs_client" /\ ~Confirmed') => spc' = "closed"]_vars

\* A client with a wrong app_name sent a request behind its handshake frame;
\* it was answered 403 and the connection is closed with the request unread.
C36_Witness ==
    /\ spc = "closed" /\ cpc = "failed" /\ confirm = 403
    /\ \E id \in Packages : c2s = <<EarlyRequest(id)>>
    /\ s2c = <<>> /\ jobs = <<>>

\* ================================================ failing loads (ReloadSpec)
\* The config file is edited between loads, also into one that load rejects.

\* Entries of the config that Package.from_dict rejects: a synctype that is
\* no sync method, and an entry without syncrate.
BadEntries(p) ==
    {ConfigEntry("svn", ConfiguredRates[p]), [synctype |-> ConfiguredTypes[p]]}

\* The "packages" objects an edited config file can hold.
EditedConfigs ==
    UNION {{f \in [S -> UNION {BadEntries(p) : p \in S}
                         \cup {ConfigEntry(ConfiguredTypes[p], ConfiguredRates[p]) : p \in S}] :
               \A p \in S : f[p] \in BadEntries(p)
                                     \cup {ConfigEntry(ConfiguredTypes[p], ConfiguredRates[p])}}
           : S \in SUBSET Packages}

\* The "settings" keys an edited config file can hold.
EditedSettings ==
    {SettingKeys, SettingKeys \ {"statfile"}, SettingKeys \ {"statusfile"},
     SettingKeys \ {"logfolder"}}

\* The administrator replaces the config file.
EditConfig(cfg, st) ==
    /\ <<cfg, st>> # <<config_packages, config_settings>>
    /\ config_packages' = cfg
    /\ config_settings' = st
    /\ UNCHANGED <<pkgvars, cfgvars, now, loopvars, workerUp, regvars, hvars, notified,
                   stat_file, stat_dict, status_file, keys,
                   sockvars, exitvars, durvars, racevars, evvars, serverRunning, framevars>>

\* config.load or reload ending in an exception. Raised at line 40 nothing
\* has been read or written. Raised at line 89 or 90 the stat file has been
\* read (line 46), merged and written (line 72), and mirror.packages has not
\* been assigned.
LoadRaises ==
    LET err == LoadError(config_settings, config_packages, ReadStat(stat_file))
        final == final_stat_packages(config_packages, ReadStat(stat_file))
    IN
    /\ err # "none"
    /\ IF err = "line40"
       THEN UNCHANGED <<stat_file, stat_dict>>
       ELSE stat_dict' = stat_file /\ stat_file' = WrittenStat(final)
    /\ UNCHANGED <<pkgvars, cfgvars, now, loopvars, workerUp, regvars, hvars, notified,
                   config_packages, config_settings, status_file, keys,
                   sockvars, exitvars, durvars, racevars, evvars, serverRunning, framevars>>

ReloadNext ==
    \/ Load
    \/ LoadRaises
    \/ \E cfg \in EditedConfigs, st \in EditedSettings : EditConfig(cfg, st)

\* A fresh installation: LoadInit with no stat file and no web status file.
ReloadInit == LoadInit /\ ~stat_file.exists /\ ~status_file.exists

ReloadSpec == ReloadInit /\ [][ReloadNext]_vars

\* C37: a load or reload that fails with a configuration error (missing
\* statfile or statusfile setting, missing required key, unknown synctype)
\* leaves the stat file on disk and the in-memory package table exactly as
\* they were before the call.
C37_FailedLoadChangesNothing ==
    [][LoadRaises =>
          /\ stat_file' = stat_file
          /\ keys' = keys
          /\ UNCHANGED <<status, errorcount, lastsync, synctype, syncrate, disabled>>]_vars

\* ======================================== stopping the server (StopSpec)
\* SockSpec with BaseServer.stop called at any moment and a client that
\* tries to connect afterwards.

\* BaseServer.stop lines 267-277: the flag is cleared, the listening socket
\* closed and the socket file removed. The connection a handler thread
\* serves is not touched, and a thread waiting in _recv_message (line 185)
\* has already evaluated the loop condition.
ServerStop ==
    /\ serverRunning
    /\ serverRunning' = FALSE
    /\ UNCHANGED <<pkgvars, cfgvars, now, loopvars, workerUp, regvars, hvars, notified,
                   filevars, sockvars, exitvars, durvars, racevars, evvars, framevars>>

\* connect lines 313-314 after stop: the socket file is gone and connect
\* raises ConnectionError.
ClientConnectRefused ==
    /\ workerUp /\ cpc = "new"
    /\ ~serverRunning
    /\ cpc' = "failed"
    /\ UNCHANGED <<nonsock, regvars, notified, cinfo, spc, s2c, c2s, confirm, cseq, clog>>

StopNext == SockNext \/ ServerStop \/ ClientConnectRefused

StopSpec == SockInit /\ [][StopNext]_vars

\* C35: after server.stop() has returned no command handler is invoked for
\* a request that arrives afterwards, on a new connection or on one that was
\* open when stop was called: no request the client sent after stop is read
\* and answered by a handler thread.
C35_NoDispatchAfterStop ==
    [][\A k \in 1..Len(clog) :
          (HandlesRequest /\ Head(c2s).seq = k) => ~clog[k].after_stop]_vars

\* ============================================= syncrate strings (DurationSpec)
\* A duration goes through iso_duration_maker and the string it returns
\* through iso_duration_parser.

\* The durations tried: each part of the format absent, one digit long, two
\* digits long and at its largest; 31 days and more are beyond MaxIsoDuration,
\* and -1 is the PUSH sentinel.
DayChoices == {0, 1, 30, 31}
HourChoices == {0, 1, 23}
MinuteChoices == {0, 10, 59}
SecondChoices == {0, 7, 59}
Durations ==
    {-3, -2, -1, MaxIsoDuration + 1}
    \cup {d * 86400 + h * 3600 + m * 60 + sec :
            d \in DayChoices, h \in HourChoices, m \in MinuteChoices, sec \in SecondChoices}

DurInit ==
    /\ status = [p \in Packages |-> "UNKNOWN"]
    /\ errorcount = [p \in Packages |-> 0]
    /\ timestamp = [p \in Packages |-> -1]
    /\ lastPosted = <<>>
    /\ raised = FALSE
    /\ disabled = [p \in Packages |-> FALSE]
    /\ lastsync = [p \in Packages |-> 0]
    /\ syncrate = [p \in Packages |-> 0]
    /\ synctype = ConfiguredTypes
    /\ debug = FALSE
    /\ now = StartTime
    /\ workerUp = TRUE
    /\ InitLoop
    /\ InitWorker
    /\ InitFiles
    /\ InitSock
    /\ InitExit
    /\ dn \in Durations
    /\ dstr = <<>>
    /\ dback = 0
    /\ dpc = "input"
    /\ InitRace
    /\ InitEvent
    /\ InitServer
    /\ InitFrame

nondur == <<pkgvars, cfgvars, now, loopvars, workerUp, regvars, hvars, notified,
            filevars, sockvars, exitvars, racevars, evvars, serverRunning, framevars>>

\* iso_duration_maker(dn) returns a string.
Make ==
    /\ dpc = "input"
    /\ ~iso_duration_maker(dn).raises
    /\ dstr' = iso_duration_maker(dn).value
    /\ dpc' = "made"
    /\ UNCHANGED <<nondur, dn, dback>>

\* iso_duration_maker(dn) raises ValueError.
MakeRaises ==
    /\ dpc = "input"
    /\ iso_duration_maker(dn).raises
    /\ dpc' = "rejected"
    /\ UNCHANGED <<nondur, dn, dstr, dback>>

\* iso_duration_parser on the string made.
Parse ==
    /\ dpc = "made"
    /\ ~iso_duration_parser(dstr).raises
    /\ dback' = iso_duration_parser(dstr).value
    /\ dpc' = "parsed"
    /\ UNCHANGED <<nondur, dn, dstr>>

DurNext == Make \/ MakeRaises \/ Parse

DurationSpec == DurInit /\ [][DurNext]_vars

\* C24: iso_duration_maker rejects exactly the durations below -1 and above
\* 2678399; every other duration, the sentinel -1 included, is formatted to a
\* string that iso_duration_parser accepts and turns back into that duration.
C24_DurationRoundTrip ==
    /\ dpc = "rejected" => dn < -1 \/ dn > 2678399
    /\ dpc \in {"made", "parsed"} => dn >= -1 /\ dn <= 2678399
    /\ dpc = "made" => ~iso_duration_parser(dstr).raises
    /\ dpc = "parsed" => dback = dn

\* 30 days 23:59:59, the longest duration, has gone through both functions.
C24_Witness ==
    /\ dn = 2678399 /\ dpc = "parsed" /\ dback = 2678399
    /\ dstr = <<"P", "3", "0", "D", "T", "2", "3", "H", "5", "9", "M", "5", "9", "S">>

\* ====================================== set_status by statements (RaceSpec)
\* The scheduler and the backend threads of one package, with Package.set_status
\* executed statement by statement: nothing in the source makes a call atomic.

\* The package the threads work on.
RacePkg == PkgOrder[1]

RaceInit ==
    /\ status = [p \in Packages |-> "UNKNOWN"]
    /\ errorcount = [p \in Packages |-> 0]
    /\ timestamp = [p \in Packages |-> -1]
    /\ lastPosted = <<>>
    /\ raised = FALSE
    /\ disabled = [p \in Packages |-> FALSE]
    /\ lastsync = [p \in Packages |-> 0]
    /\ syncrate = [p \in Packages |-> 0]
    /\ synctype = ConfiguredTypes
    /\ debug = FALSE
    /\ now = StartTime
    /\ workerUp = TRUE
    /\ InitLoop
    /\ InitWorker
    /\ InitFiles
    /\ InitSock
    /\ InitExit
    /\ InitDur
    /\ InitRace
    /\ InitEvent
    /\ InitServer
    /\ InitFrame

norace == <<errorcount, raised, cfgvars, now, loopvars, workerUp, regvars, hvars,
            notified, filevars, sockvars, exitvars, durvars, evvars, serverRunning, framevars>>

\* Caller c is between two of its set_status calls.
Between(c, at) == prog[c] = at /\ calls[c].pc = "out"

\* set_status lines 103-110 for a valid target: the call returns at once when
\* the package already has the target status; otherwise the PRE event is
\* posted and the call goes on to line 111.
Enter(c, target) ==
    [calls EXCEPT ![c] = IF status[RacePkg] = target THEN NoCall
                         ELSE [pc |-> "write", target |-> target, loaded |-> 0]]

\* daemon() lines 64-80: the scheduler finds the package neither syncing nor
\* due later, and calls set_status("SYNC").
SchedVisit ==
    /\ Between("sched", "loop")
    /\ ~is_syncing(RacePkg) /\ IsDue(RacePkg)
    /\ \E t \in BackendThreads : prog[t] = "none"
    /\ errorWrites < MaxErrorCount
    /\ calls' = Enter("sched", "SYNC")
    /\ prog' = [prog EXCEPT !["sched"] = "dispatch"]
    /\ UNCHANGED <<norace, status, timestamp, lastsync, lastPosted, errorWrites>>

\* mirror.sync.start line 62: set_status("SYNC") once more.
SchedStart ==
    /\ Between("sched", "dispatch")
    /\ calls' = Enter("sched", "SYNC")
    /\ prog' = [prog EXCEPT !["sched"] = "start"]
    /\ UNCHANGED <<norace, status, timestamp, lastsync, lastPosted, errorWrites>>

\* mirror.sync.start lines 63-65: the backend thread is started and the
\* scheduler goes on with its loop.
SchedSpawn(t) ==
    /\ Between("sched", "start")
    /\ prog[t] = "none"
    /\ prog' = [prog EXCEPT !["sched"] = "loop", ![t] = "enter"]
    /\ UNCHANGED <<norace, status, timestamp, lastsync, lastPosted, calls, errorWrites>>

\* execute's first statement, set_status("SYNC").
ThreadEnter(t) ==
    /\ Between(t, "enter")
    /\ calls' = Enter(t, "SYNC")
    /\ prog' = [prog EXCEPT ![t] = "rpc"]
    /\ UNCHANGED <<norace, status, timestamp, lastsync, lastPosted, errorWrites>>

\* execute after the worker answered "started": package.lastsync =
\* time.time(), then set_status("ACTIVE").
ThreadStarted(t) ==
    /\ Between(t, "rpc")
    /\ lastsync' = [lastsync EXCEPT ![RacePkg] = now]
    /\ calls' = Enter(t, "ACTIVE")
    /\ prog' = [prog EXCEPT ![t] = "final"]
    /\ UNCHANGED <<norace, status, timestamp, lastPosted, errorWrites>>

\* execute's except clause: set_status("ERROR").
ThreadFailed(t) ==
    /\ Between(t, "rpc")
    /\ calls' = Enter(t, "ERROR")
    /\ prog' = [prog EXCEPT ![t] = "final"]
    /\ UNCHANGED <<norace, status, timestamp, lastsync, lastPosted, errorWrites>>

\* execute returns and the thread ends.
ThreadEnd(t) ==
    /\ Between(t, "final")
    /\ prog' = [prog EXCEPT ![t] = "none"]
    /\ UNCHANGED <<norace, status, timestamp, lastsync, lastPosted, calls, errorWrites>>

\* set_status lines 111-112: self.status and self.timestamp are written.
CallWrite(c) ==
    /\ calls[c].pc = "write"
    /\ status' = [status EXCEPT ![RacePkg] = calls[c].target]
    /\ timestamp' = [timestamp EXCEPT ![RacePkg] = now * 1000]
    /\ errorWrites' = IF calls[c].target = "ERROR" THEN errorWrites + 1 ELSE errorWrites
    /\ calls' = [calls EXCEPT ![c] = IF calls[c].target = "ERROR"
                                     THEN [@ EXCEPT !.pc = "load"] ELSE NoCall]
    /\ lastPosted' = <<"MASTER.PACKAGE_STATUS_UPDATE.PRE">>
    /\ UNCHANGED <<norace, lastsync, prog>>

\* set_status line 115, `self.errorcount += 1`: the attribute is read ...
CallLoad(c) ==
    /\ calls[c].pc = "load"
    /\ calls' = [calls EXCEPT ![c] = [@ EXCEPT !.pc = "store", !.loaded = errorcount[RacePkg]]]
    /\ UNCHANGED <<pkgvars, cfgvars, now, loopvars, workerUp, regvars, hvars, notified,
                   filevars, sockvars, exitvars, durvars, prog, errorWrites, evvars, serverRunning, framevars>>

\* ... and the sum is written back; lines 117: the POST event is posted and
\* the call returns.
CallStore(c) ==
    /\ calls[c].pc = "store"
    /\ errorcount' = [errorcount EXCEPT ![RacePkg] = calls[c].loaded + 1]
    /\ calls' = [calls EXCEPT ![c] = NoCall]
    /\ lastPosted' = <<"MASTER.PACKAGE_STATUS_UPDATE.PRE", "MASTER.PACKAGE_STATUS_UPDATE.POST">>
    /\ UNCHANGED <<status, lastsync, timestamp, raised, cfgvars, now, loopvars, workerUp,
                   regvars, hvars, notified, filevars, sockvars, exitvars, durvars,
                   prog, errorWrites, evvars, serverRunning, framevars>>

RaceNext ==
    \/ SchedVisit
    \/ SchedStart
    \/ \E t \in BackendThreads : SchedSpawn(t)
    \/ \E t \in BackendThreads : ThreadEnter(t)
    \/ \E t \in BackendThreads : ThreadStarted(t)
    \/ \E t \in BackendThreads : ThreadFailed(t)
    \/ \E t \in BackendThreads : ThreadEnd(t)
    \/ \E c \in Callers : CallWrite(c)
    \/ \E c \in Callers : CallLoad(c)
    \/ \E c \in Callers : CallStore(c)

RaceSpec == RaceInit /\ [][RaceNext]_vars

\* The callers that are inside set_status on the package.
InsideSetStatus == {c \in Callers : calls[c].pc # "out"}

\* C29: set_status calls on one package are serialised: no caller is inside
\* set_status while another is, and so, whenever no call is in progress, the
\* package's errorcount is the number of times its status was set to ERROR.
C29_StatusCallsSerialised ==
    /\ Cardinality(InsideSetStatus) <= 1
    /\ InsideSetStatus = {} => errorcount[RacePkg] = errorWrites

\* ================================================ the event manager (EventSpec)
\* Threads of the process call on, off and post_event on the one EventManager
\* while its executor runs the submitted wrappers.

\* What a publisher posts with an event.
Args == {"a", "b"}

\* The listeners whose body raises an Exception.
Raising == {"l2"}

on_always_append(ls, l) == Append(ls, l)
\* on lines 24-29: the listener is appended unless the list has it already.
on(ls, l) == IF \E k \in 1..Len(ls) : ls[k] = l THEN ls ELSE Append(ls, l)

\* list.remove: the first occurrence of l is taken out of the list.
RECURSIVE Remove(_, _)
Remove(ls, l) ==
    IF ls = <<>> THEN <<>>
    ELSE IF Head(ls) = l THEN Tail(ls)
    ELSE <<Head(ls)>> \o Remove(Tail(ls), l)

\* off lines 51-54: the listener is removed if the list has it.
off(ls, l) == IF \E k \in 1..Len(ls) : ls[k] = l THEN Remove(ls, l) ELSE ls

\* One call of a listener for the i-th post: what it is called with.
Call(i, l, e, arg) == [post |-> i, listener |-> l, event |-> e, arg |-> arg]

execute_listener_inline(c) ==
    [raised |-> c.listener \in Raising, queued |-> {}, ran |-> {c}]
\* _execute_listener lines 84-92: the listener is wrapped and the wrapper is
\* submitted to the executor; nothing of the listener runs in the caller.
execute_listener(c) ==
    [raised |-> FALSE, queued |-> {c}, ran |-> {}]

\* post_event lines 75-79: the loop over the copied list ls, from its k-th
\* element on; an exception in the loop ends it.
RECURSIVE SubmitFrom(_, _, _, _, _, _)
SubmitFrom(i, ls, e, arg, k, acc) ==
    IF k > Len(ls) THEN acc
    ELSE LET r == execute_listener(Call(i, ls[k], e, arg))
             next == [raised |-> r.raised,
                      queued |-> acc.queued \cup r.queued,
                      ran |-> acc.ran \cup r.ran]
         IN IF r.raised THEN next ELSE SubmitFrom(i, ls, e, arg, k + 1, next)

EventInit ==
    /\ status = [p \in Packages |-> "UNKNOWN"]
    /\ errorcount = [p \in Packages |-> 0]
    /\ timestamp = [p \in Packages |-> -1]
    /\ lastPosted = <<>>
    /\ raised = FALSE
    /\ disabled = [p \in Packages |-> FALSE]
    /\ lastsync = [p \in Packages |-> 0]
    /\ syncrate = [p \in Packages |-> 0]
    /\ synctype = ConfiguredTypes
    /\ debug = FALSE
    /\ now = StartTime
    /\ workerUp = TRUE
    /\ InitLoop
    /\ InitWorker
    /\ InitFiles
    /\ InitSock
    /\ InitExit
    /\ InitDur
    /\ InitRace
    /\ InitEvent
    /\ InitServer
    /\ InitFrame

nonev == <<pkgvars, cfgvars, now, loopvars, workerUp, regvars, hvars, notified,
           filevars, sockvars, exitvars, durvars, racevars, serverRunning, framevars>>

\* on(e, l), under the manager's lock.
On(e, l) ==
    /\ Len(listeners[e]) < MaxRegistrations
    /\ listeners' = [listeners EXCEPT ![e] = on(@, l)]
    /\ registered' = [registered EXCEPT ![e] = @ \cup {l}]
    /\ UNCHANGED <<nonev, posts, pool, invoked>>

\* off(e, l), under the manager's lock.
Off(e, l) ==
    /\ listeners' = [listeners EXCEPT ![e] = off(@, l)]
    /\ registered' = [registered EXCEPT ![e] = @ \ {l}]
    /\ UNCHANGED <<nonev, posts, pool, invoked>>

\* post_event(e, arg, wait=w) lines 63-82: the list is copied under the
\* lock, the call returns when it is empty, and otherwise every listener of
\* the copy is handed to _execute_listener; with wait the call then waits
\* for the futures. `must` are the listeners whose on had returned when the
\* list was copied, `mustnot` those whose off had.
PostEvent(e, arg, w) ==
    /\ Len(posts) < MaxPosts
    /\ LET i == Len(posts) + 1
           r == SubmitFrom(i, listeners[e], e, arg, 1,
                           [raised |-> FALSE, queued |-> {}, ran |-> {}])
       IN /\ pool' = pool \cup r.queued
          /\ invoked' = invoked \cup r.ran
          /\ posts' = Append(posts,
                  [event |-> e, arg |-> arg, wait |-> w,
                   snapshot |-> listeners[e],
                   must |-> registered[e],
                   mustnot |-> Listeners \ registered[e],
                   pc |-> IF r.raised THEN "raised"
                          ELSE IF w /\ r.queued # {} THEN "waiting"
                          ELSE "returned"])
    /\ UNCHANGED <<nonev, listeners, registered>>

\* wait_futures returns once every future of the call is done, whatever its
\* outcome.
PostWaitDone(i) ==
    /\ posts[i].pc = "waiting"
    /\ \A t \in pool : t.post # i
    /\ posts' = [posts EXCEPT ![i].pc = "returned"]
    /\ UNCHANGED <<nonev, listeners, registered, pool, invoked>>

\* once lines 35-45: the wrapper objects once creates, one per call, and the
\* listener each of them calls.
OnceWrappers == {"w1", "w2"}
Wrapped(w) == IF w = "w1" THEN "l1" ELSE "l2"

\* once lines 40-41: when a listener that has just run is a wrapper made by
\* once, its finally clause takes it off the event's list.
AfterListener(ls, l) == IF l \in OnceWrappers THEN off(ls, l) ELSE ls

\* An executor thread runs a wrapper, lines 86-90: the listener is called and
\* an Exception it raises is logged. A listener made by once (lines 35-41)
\* calls the listener it wraps and then off; the two are taken as one step.
RunWrapper(t) ==
    /\ t \in pool
    /\ pool' = pool \ {t}
    /\ invoked' = invoked \cup {t}
    /\ listeners' = [listeners EXCEPT ![t.event] = AfterListener(@, t.listener)]
    /\ registered' = [registered EXCEPT ![t.event] =
                          IF t.listener \in OnceWrappers THEN @ \ {t.listener} ELSE @]
    /\ UNCHANGED <<nonev, posts>>

EventNext ==
    \/ \E e \in Events, l \in Listeners : On(e, l)
    \/ \E e \in Events, l \in Listeners : Off(e, l)
    \/ \E e \in Events, arg \in Args, w \in BOOLEAN : PostEvent(e, arg, w)
    \/ \E i \in 1..Len(posts) : PostWaitDone(i)
    \/ \E t \in pool : RunWrapper(t)

EventSpec == EventInit /\ [][EventNext]_vars

\* The listeners of the list post i copied.
Copied(i) == {posts[i].snapshot[k] : k \in 1..Len(posts[i].snapshot)}

\* What listener l is called with for post i.
Invocation(i, l) == Call(i, l, posts[i].event, posts[i].arg)

\* post i has handed listener l to the executor, or l has run for it.
Dispatched(i, l) == Invocation(i, l) \in pool \cup invoked

\* C25: an exception raised by a listener never reaches the publisher: no
\* post_event call ends by raising, and when a call has returned every
\* listener of the event has been dispatched, and has run when the call was
\* made with wait=True, whichever listeners raise.
C25_ListenerExceptionsContained ==
    \A i \in 1..Len(posts) :
        /\ posts[i].pc # "raised"
        /\ posts[i].pc = "returned" =>
              \A l \in Copied(i) :
                  /\ Dispatched(i, l)
                  /\ posts[i].wait => Invocation(i, l) \in invoked

\* An asynchronous and a waited post have both returned, a raising listener
\* was first in the list of each and has run, and the listener after it has
\* run as well.
C25_Witness ==
    /\ Len(posts) = 2
    /\ posts[1].wait /\ ~posts[2].wait
    /\ \A i \in 1..2 :
          /\ posts[i].pc = "returned"
          /\ posts[i].snapshot = <<"l2", "l1">>
          /\ \A l \in Listeners : Invocation(i, l) \in invoked

\* C26: a listener registered with on before a post_event call is made is
\* invoked for it with the posted event and argument (it has been handed to
\* the executor when the call returns, and has run when the call waited), and
\* a listener whose off returned before the call was made is not invoked
\* for it.
C26_OnOffHonoured ==
    /\ \A t \in pool \cup invoked :
          /\ t.listener \notin posts[t.post].mustnot
          /\ t.event = posts[t.post].event
          /\ t.arg = posts[t.post].arg
    /\ \A i \in 1..Len(posts) :
          posts[i].pc = "returned" =>
              \A l \in posts[i].must :
                  /\ Dispatched(i, l)
                  /\ posts[i].wait => Invocation(i, l) \in invoked

\* l1 ran for a first post of an event, was then taken off, and a second
\* post of the same event has returned after running the listener that was
\* still registered and without running l1.
C26_Witness ==
    /\ Len(posts) = 2
    /\ posts[1].event = posts[2].event
    /\ "l1" \in posts[1].must
    /\ Invocation(1, "l1") \in invoked
    /\ posts[2].pc = "returned"
    /\ posts[2].mustnot = {"l1"}
    /\ posts[2].must = {"l2"}
    /\ Invocation(2, "l2") \in invoked
    /\ Invocation(2, "l1") \notin invoked

\* ================================================ EventManager.once (OnceSpec)
\* Listeners are registered with once and events are posted while the
\* executor runs the submitted wrappers.

\* The wrapper w has been created by an earlier once call.
Created(e, w) ==
    \/ w \in registered[e]
    \/ \E t \in pool \cup invoked : t.listener = w

\* once(e, l) lines 31-45: a new wrapper round l is registered with on.
Once(e, w) ==
    /\ ~Created(e, w)
    /\ listeners' = [listeners EXCEPT ![e] = on(@, w)]
    /\ registered' = [registered EXCEPT ![e] = @ \cup {w}]
    /\ UNCHANGED <<nonev, posts, pool, invoked>>

OnceNext ==
    \/ \E e \in Events, w \in OnceWrappers : Once(e, w)
    \/ \E e \in Events, arg \in Args, w \in BOOLEAN : PostEvent(e, arg, w)
    \/ \E i \in 1..Len(posts) : PostWaitDone(i)
    \/ \E t \in pool : RunWrapper(t)

OnceSpec == EventInit /\ [][OnceNext]_vars

\* The invocations of the listener that once wrapped in w.
OnceInvocations(w) == {t \in invoked : t.listener = w}

\* C34: a listener registered with once(event) is invoked at most once over
\* any sequence of post_event(event) calls, two calls issued before the
\* first invocation has finished included.
C34_OnceInvokedAtMostOnce ==
    \A w \in OnceWrappers : Cardinality(OnceInvocations(w)) <= 1

\* ============================================ the framing layer (FrameSpec)
\* One message goes from _send_message to _recv_message over a stream socket
\* that hands the bytes over in chunks of any size.

\* The dicts sent: {"k": n}.
Messages == {[k |-> n] : n \in {0, 7, 10}}

\* The characters of the bodies and their UTF-8 codes.
Utf8(c) ==
    CASE c = "{" -> 123 [] c = "}" -> 125 [] c = "\"" -> 34 [] c = ":" -> 58
      [] c = " " -> 32 [] c = "k" -> 107 [] OTHER -> 48 + DigitValue(c)

\* bytes.decode('utf-8') of one byte of a body.
Chr(b) ==
    CASE b = 123 -> "{" [] b = 125 -> "}" [] b = 34 -> "\"" [] b = 58 -> ":"
      [] b = 32 -> " " [] b = 107 -> "k" [] OTHER -> DigitChars[b - 47]

\* json.dumps(data).encode('utf-8') for data = {"k": n}, _send_message line 44.
json_dumps(data) ==
    LET text == <<"{", "\"", "k", "\"", ":", " ">> \o Str(data.k) \o <<"}">>
    IN  [i \in 1..Len(text) |-> Utf8(text[i])]

\* json.loads(data.decode('utf-8')), _recv_message line 69: the dict, or
\* JSONDecodeError for bytes that are not the text of one.
json_loads(bytes) ==
    LET text == [i \in 1..Len(bytes) |-> Chr(bytes[i])]
        digits == SubSeq(text, 7, Len(text) - 1)
    IN  IF /\ Len(text) >= 8
           /\ SubSeq(text, 1, 6) = <<"{", "\"", "k", "\"", ":", " ">>
           /\ text[Len(text)] = "}"
           /\ \A i \in 1..Len(digits) : IsDigit(digits[i])
        THEN [error |-> "none", value |-> [k |-> ParseInt(digits)]]
        ELSE [error |-> "JSONDecodeError", value |-> NoResult.value]

\* The size of the length header, lines 45 and 55.
HeaderSize == 4

\* struct.pack('>I', n): four bytes, most significant first.
pack(n) == <<(n \div 16777216) % 256, (n \div 65536) % 256, (n \div 256) % 256, n % 256>>

\* struct.unpack('>I', header)[0]
unpack(header) == header[1] * 16777216 + header[2] * 65536 + header[3] * 256 + header[4]

\* _send_message lines 44-46: what sendall writes.
Frame(data) == pack(Len(json_dumps(data))) \o json_dumps(data)

\* sock.recv(n): at most n of the bytes that have arrived.
recv(n) == SubSeq(fbuf, 1, IF n < Len(fbuf) THEN n ELSE Len(fbuf))

\* sock.recv returns: bytes have arrived, or the peer has closed and nothing
\* is left (recv then returns b'').
RecvReturns == fbuf # <<>> \/ (fpeer = "closed" /\ fwire = <<>>)

FrameInit ==
    /\ status = [p \in Packages |-> "UNKNOWN"]
    /\ errorcount = [p \in Packages |-> 0]
    /\ timestamp = [p \in Packages |-> -1]
    /\ lastPosted = <<>>
    /\ raised = FALSE
    /\ disabled = [p \in Packages |-> FALSE]
    /\ lastsync = [p \in Packages |-> 0]
    /\ syncrate = [p \in Packages |-> 0]
    /\ synctype = ConfiguredTypes
    /\ debug = FALSE
    /\ now = StartTime
    /\ workerUp = TRUE
    /\ InitLoop
    /\ InitWorker
    /\ InitFiles
    /\ InitSock
    /\ InitExit
    /\ InitDur
    /\ InitRace
    /\ InitEvent
    /\ InitServer
    /\ fmsg \in Messages
    /\ fpeer = "ready"
    /\ fwire = <<>>
    /\ fbuf = <<>>
    /\ fpc = "header"
    /\ flength = 0
    /\ fdata = <<>>
    /\ fresult = NoResult

nonframe == <<pkgvars, cfgvars, now, loopvars, workerUp, regvars, hvars, notified,
              filevars, sockvars, exitvars, durvars, racevars, evvars, serverRunning>>

\* _send_message(sock, fmsg): sendall writes header and body.
SendMessage ==
    /\ fpeer = "ready"
    /\ fwire' = Frame(fmsg)
    /\ fpeer' = "sent"
    /\ UNCHANGED <<nonframe, fmsg, fbuf, fpc, flength, fdata, fresult>>

\* The sending process ends inside sendall: n bytes of the frame have been
\* written and the connection is closed.
SendTruncated(n) ==
    /\ fpeer = "ready"
    /\ n < Len(Frame(fmsg))
    /\ fwire' = SubSeq(Frame(fmsg), 1, n)
    /\ fpeer' = "closed"
    /\ UNCHANGED <<nonframe, fmsg, fbuf, fpc, flength, fdata, fresult>>

\* The transport hands the next n bytes of the stream to the receiving socket.
Deliver(n) ==
    /\ n <= Len(fwire)
    /\ fbuf' = fbuf \o SubSeq(fwire, 1, n)
    /\ fwire' = SubSeq(fwire, n + 1, Len(fwire))
    /\ UNCHANGED <<nonframe, fmsg, fpeer, fpc, flength, fdata, fresult>>

\* _recv_message lines 60-69 once `data` holds the given bytes: the loop
\* goes on, or json.loads ends the call.
AfterData(data, length) ==
    IF Len(data) < length THEN [pc |-> "body", result |-> NoResult]
    ELSE LET r == json_loads(data)
         IN  [pc |-> IF r.error = "none" THEN "returned" ELSE "raised", result |-> r]

\* _recv_message lines 55-60: sock.recv(4) returns; fewer than four bytes
\* raise ConnectionError, four are unpacked into the length.
RecvHeader ==
    /\ fpc = "header" /\ RecvReturns
    /\ LET header == recv(HeaderSize) IN
       /\ fbuf' = SubSeq(fbuf, Len(header) + 1, Len(fbuf))
       /\ IF Len(header) < HeaderSize
          THEN /\ fpc' = "raised"
               /\ fresult' = [error |-> "ConnectionError", value |-> NoResult.value]
               /\ UNCHANGED <<flength, fdata>>
          ELSE /\ flength' = unpack(header)
               /\ fdata' = <<>>
               /\ fpc' = AfterData(<<>>, flength').pc
               /\ fresult' = AfterData(<<>>, flength').result
    /\ UNCHANGED <<nonframe, fmsg, fpeer, fwire>>

\* _recv_message lines 61-65: sock.recv(length - len(data)) returns; an empty
\* packet raises ConnectionError, any other is appended.
RecvBody ==
    /\ fpc = "body" /\ RecvReturns
    /\ LET packet == recv(flength - Len(fdata)) IN
       /\ fbuf' = SubSeq(fbuf, Len(packet) + 1, Len(fbuf))
       /\ IF packet = <<>>
          THEN /\ fpc' = "raised"
               /\ fresult' = [error |-> "ConnectionError", value |-> NoResult.value]
               /\ UNCHANGED fdata
          ELSE /\ fdata' = fdata \o packet
               /\ fpc' = AfterData(fdata', flength).pc
               /\ fresult' = AfterData(fdata', flength).result
    /\ UNCHANGED <<nonframe, fmsg, fpeer, fwire, flength>>

FrameNext ==
    \/ SendMessage
    \/ \E n \in 0..Len(Frame(fmsg)) : SendTruncated(n)
    \/ \E n \in 1..Len(fwire) : Deliver(n)
    \/ RecvHeader
    \/ RecvBody

FrameSpec == FrameInit /\ [][FrameNext]_vars

\* C31 (as claimed): whatever the chunks the transport delivers the frame in,
\* a split inside the four header bytes included, recv returns exactly the
\* message sent, and it fails, with a connection error, only when the peer
\* closed before the frame was complete.
C31_RecvReturnsMessage ==
    /\ fpc = "returned" => fresult = [error |-> "none", value |-> fmsg]
    /\ fpc = "raised" => fpeer = "closed" /\ fresult.error = "ConnectionError"

====
